---------------------------- MODULE Spec2Model ----------------------------
(***************************************************************************)
(* A model of T-Vault's storage layer (src-tauri/src/storage.rs): the     *)
(* process-wide metadata cache and its persisted file, the operations     *)
(* that copy, change and replace the store (upload_file, create_folder,   *)
(* delete_file, sync_from_telegram), and upload_file's retry loop.        *)
(*                                                                         *)
(* Every operation runs as a task; one action is one stretch of code      *)
(* between two suspension points (.await).  Sub-procedures                *)
(* (ensure_metadata_loaded, load_metadata_copy, save_metadata_local) are  *)
(* entered with a return address on the task's stack.                     *)
(*                                                                         *)
(* Representation.  Option<T> is a sequence of length <= 1.  Folder paths *)
(* and names are sequences of one-character strings, so that starts_with  *)
(* and Path::file_name/parent are computed, not assumed.  Ids are strings. *)
(* A size is [mib, rem] = mib * 2^20 + rem bytes (2 GiB does not fit a    *)
(* 32-bit integer).  Fields of FileMetadata and FolderMetadata that no    *)
(* modelled operation reads (mime_type, created_at, thumbnail, encrypted, *)
(* chat_title) are left out of the records.                               *)
(***************************************************************************)
EXTENDS Integers, Sequences, FiniteSets, TLC

VARIABLES
    cache,      \* METADATA_CACHE: Option<MetadataStore>
    fsys,       \* the data directory: [canon, tmp: inode or 0, inodes: contents]
    remote,     \* the Telegram account: channels, message counters, Saved Messages
    clock,      \* chrono::Utc::now(), read for synthesized ids
    env,        \* this run: what is asked of the layer, what the remote channel may do
    proc,       \* the process: restarts so far, and what the last one found
    tk,         \* the tasks: position, stack, locals
    hist        \* per task: attempt outcomes, sleeps and probes of upload_file's loop

vars == <<cache, fsys, remote, clock, env, proc, tk, hist>>

(*************************** bounds ****************************************)
NumTasks == 2        \* tasks; each runs one operation in a process lifetime
MaxRestarts == 1    \* process restarts (a crash or an exit, then a fresh start)

Tasks == 1..NumTasks

(*************************** values ****************************************)
None == <<>>
Some(x) == <<x>>
IsSome(o) == o # <<>>

Root == <<"/">>
PathA == <<"/", "A">>

Size(m, r) == [mib |-> m, rem |-> r]
SizeLt(a, b) == a.mib < b.mib \/ (a.mib = b.mib /\ a.rem < b.rem)
\* a limit that no size reaches
SizeGe_Never(a, b) == FALSE
SizeGe(a, b) == ~SizeLt(a, b)

MAX_FILE_SIZE == Size(2 * 1024, 0)
MAX_RETRIES == 5
\* the attempts an environment lets fail: as many as there can be
AnyFails == MAX_RETRIES * NumTasks

\* MetadataStore::new()
MetadataStore_new ==
    [version |-> 2, files |-> <<>>, folders |-> <<Root>>, folder_metadata |-> <<>>]

FileEntry(id, name, size, folder, is_folder, message_id, chat_id) ==
    [id |-> id, name |-> name, size |-> size, folder |-> folder,
     is_folder |-> is_folder, message_id |-> message_id, chat_id |-> chat_id]

\* a folders list that contains every path
SeqContains_Any(seq, x) == TRUE

FolderMetadata(path, chat_id) == [path |-> path, chat_id |-> chat_id]

SeqContains(s, x) == \E i \in 1..Len(s) : s[i] = x

(*************************** paths *****************************************)
\* the index of the last '/' of a path (paths start with '/')
LastSlash(p) == CHOOSE i \in 1..Len(p) : p[i] = "/" /\ \A j \in (i + 1)..Len(p) : p[j] # "/"

\* Path::new(folder).file_name()
PathFileName(p) == SubSeq(p, LastSlash(p) + 1, Len(p))

\* Path::new(folder).parent(), "/" when it is empty
PathParent(p) == IF LastSlash(p) <= 1 THEN Root ELSE SubSeq(p, 1, LastSlash(p) - 1)

(*************************** ids *******************************************)
\* format!("{}:{}", chat_part, message_id), chat_part "saved" without a chat
RemoteId(chat_id, message_id) ==
    (IF IsSome(chat_id) THEN ToString(chat_id[1]) ELSE "saved") \o ":" \o ToString(message_id)

LocalId(ts, counter) == "local:" \o ToString(ts) \o ":" \o ToString(counter)

FolderId(ts) == "folder_" \o ToString(ts)

RECURSIVE NormalizeFrom(_, _, _, _, _, _)
NormalizeFrom(files, i, seen, counter, changed, ts) ==
    IF i > Len(files) THEN [files |-> files, changed |-> changed]
    ELSE LET file == files[i] IN
         IF file.is_folder
         THEN NormalizeFrom(files, i + 1, seen \cup {file.id}, counter, changed, ts)
         ELSE LET derived == IF IsSome(file.message_id)
                             THEN RemoteId(file.chat_id, file.message_id[1])
                             ELSE file.id
                  clash == derived = "" \/ derived \in seen
                  cnt == IF clash THEN counter + 1 ELSE counter
                  new_id == IF clash THEN LocalId(ts, cnt) ELSE derived
              IN NormalizeFrom([files EXCEPT ![i].id = new_id], i + 1,
                               seen \cup {new_id}, cnt,
                               changed \/ file.id # new_id, ts)

\* normalize_file_ids: the store with its ids normalized, and whether any changed
normalize_file_ids(store, ts) ==
    LET r == NormalizeFrom(store.files, 1, {}, 0, FALSE, ts)
    IN [store |-> [store EXCEPT !.files = r.files], changed |-> r.changed]

(*************************** the persisted document ************************)
\* What a file holds: a JSON document, or bytes that do not parse (a file
\* created or truncated and not yet written, or written by two writers).
Torn == [kind |-> "torn"]

\* serde_json::to_string_pretty: every field is written
Serialize(store) ==
    [kind |-> "doc", version |-> Some(store.version), files |-> store.files,
     folders |-> store.folders, folder_metadata |-> Some(store.folder_metadata)]

default_version == 2

\* serde_json::from_str: version and folder_metadata take their defaults when
\* the document has none
Deserialize(doc) ==
    [version |-> IF IsSome(doc.version) THEN doc.version[1] ELSE default_version,
     files |-> doc.files,
     folders |-> doc.folders,
     folder_metadata |-> IF IsSome(doc.folder_metadata) THEN doc.folder_metadata[1] ELSE <<>>]

Parses(content) == content.kind = "doc"

(*************************** errors of the remote channel ******************)
\* An error message is modelled by the marker words it contains, the digits
\* that follow "flood_wait_" (none when no number follows), and whether it is
\* written in upper case.
ErrMsg(words, digits, upper) == [words |-> words, digits |-> digits, upper |-> upper]

E_Flood12 == ErrMsg({"flood_wait"}, Some(12), FALSE)
E_Flood90 == ErrMsg({"flood_wait"}, Some(90), FALSE)
E_FloodUpper == ErrMsg({"flood_wait"}, Some(7), TRUE)
E_FloodBare == ErrMsg({"flood_wait"}, None, FALSE)
E_TooMany == ErrMsg({"too many requests"}, None, FALSE)
E_FloodTooMany == ErrMsg({"flood_wait", "too many requests"}, Some(12), FALSE)
E_Timeout == ErrMsg({"timeout"}, None, FALSE)
E_BadRequest == ErrMsg({"bad request"}, None, FALSE)
\* attempt_upload's own message when upload_stream exceeds its timeout
E_StreamTimedOut == ErrMsg({"timed out", "deadline has elapsed"}, None, FALSE)

\* upload_file's message when the whole attempt exceeds its timeout
E_AttemptTimedOut == ErrMsg({"timed out", "deadline has elapsed"}, None, FALSE)

ChannelErrors == {E_Flood12, E_Flood90, E_FloodUpper, E_FloodBare, E_TooMany,
                  E_FloodTooMany, E_Timeout, E_BadRequest}

to_lowercase(e) == [e EXCEPT !.upper = FALSE]

\* str::contains of a lower-case marker
Contains(e, marker) == ~e.upper /\ marker \in e.words

RetryableMarkers ==
    {"deadline has elapsed", "timeout", "flood_wait", "too many requests", "server",
     "network", "connection", "transport", "timed out", "closed", "broken pipe"}

is_retryable_error(error_str) ==
    LET error_lower == to_lowercase(error_str)
    IN \E m \in RetryableMarkers : Contains(error_lower, m)

\* a search that finds no number
extract_flood_wait_None(error_str) == None

\* Regex flood_wait_(\d+) on the text as given
extract_flood_wait(error_str) ==
    IF Contains(error_str, "flood_wait") THEN error_str.digits ELSE None

Min(a, b) == IF a < b THEN a ELSE b
Max(a, b) == IF a > b THEN a ELSE b

\* a backoff that does not look for the flood wait
WaitSeconds_NoFloodWait(error_str, retry_count) == Min(2 ^ (retry_count - 1), 30)

\* upload_file's wait before the next attempt, retry_count already incremented
WaitSeconds(error_str, retry_count) ==
    LET error_str_lower == to_lowercase(error_str)
        fw == extract_flood_wait(error_str_lower)
    IN IF Contains(error_str_lower, "flood_wait")
       THEN Min(IF IsSome(fw) THEN fw[1] ELSE 30, 60)
       ELSE IF Contains(error_str_lower, "too many requests")
       THEN 30
       ELSE Min(2 ^ (retry_count - 1), 30)

\* a timeout that does not grow with the size
AttemptTimeoutSecs_Flat(file_size) == 180

\* upload_file's timeout of one attempt, in seconds
AttemptTimeoutSecs(file_size) ==
    Min(1200, Max(180, (file_size.mib \div 20) * 60 + 180))

\* attempt_upload's timeout of upload_stream, in seconds
StreamTimeoutSecs(file_size) ==
    Max(Min(900, (file_size.mib \div 10) * 60), 120)

(*************************** tasks ******************************************)
\* the locals of migrate_files_to_folders before the candidates are collected
NoMigration ==
    [metadata |-> MetadataStore_new, files |-> <<>>, index |-> 0,
     total |-> 0, migrated |-> 0, failed |-> 0, skipped |-> 0]

\* a task that wraps no stream
NoProgress ==
    [total_size |-> 0, current_size |-> 0, last_reported_progress |-> 0,
     last_reported_time |-> 0, now |-> 0, polls |-> 0,
     calls |-> 0, calls_0 |-> 0, calls_100 |-> 0, read_len |-> 0]

NoResult == <<>>

\* a task's locals; the fields an operation does not use keep these values
IdleTask ==
    [pc |-> "idle", stack |-> <<>>, rv |-> "ok", op |-> "none",
     source |-> [path_ok |-> TRUE, exists |-> TRUE, name |-> <<"f">>, size |-> Size(0, 1)],
     folder |-> Root, name |-> <<>>, folder_name |-> <<>>, file_id |-> "",
     metadata |-> MetadataStore_new, loaded |-> MetadataStore_new, ids_changed |-> FALSE,
     save_store |-> MetadataStore_new, cache_before |-> None, fd |-> 0,
     chat_id |-> None, new_chat |-> None, retry_count |-> 0, message_id |-> 0,
     new_files |-> <<>>,
     copied |-> FALSE, caller |-> "", mig |-> NoMigration, progress |-> NoProgress,
     client_guard |-> FALSE, result |-> NoResult]

NoHist == [log |-> <<>>, created |-> 0]

Ok(v) == [ok |-> TRUE, err |-> "", val |-> v]
Err(e) == [ok |-> FALSE, err |-> e, val |-> ""]

\* enter a sub-procedure at `target`, to come back at `ret`
Call(s, target, ret) == [s EXCEPT !.pc = target, !.stack = <<ret>> \o s.stack]
\* leave the sub-procedure with Ok(()) ("ok") or Err ("err")
Return(s, v) == [s EXCEPT !.pc = Head(s.stack), !.stack = Tail(s.stack), !.rv = v]
\* the operation returns to its caller: the command's caller, or the
\* orchestrator that called it
Finish(s, res) ==
    [s EXCEPT !.pc = IF s.caller = "" THEN "done" ELSE s.caller, !.caller = "",
              !.stack = <<>>, !.result = Some(res)]

At(t, p) == tk[t].pc = p
Set(t, s) == tk' = [tk EXCEPT ![t] = s]

Event(ev, out, err, secs) == [ev |-> ev, out |-> out, err |-> err, secs |-> secs]
Log(t, e) == hist' = [hist EXCEPT ![t].log = Append(@, e)]

(*************************** the data directory *****************************)
Inodes == 1..(NumTasks + 2)

InUse(i) == i = fsys.canon \/ i = fsys.tmp \/ \E t \in Tasks : tk[t].fd = i
FreeInode == CHOOSE i \in Inodes : ~InUse(i)

\* the bytes at the canonical path, None when there is no file
CanonContent == IF fsys.canon = 0 THEN None ELSE Some(fsys.inodes[fsys.canon])

(*************************** ensure_metadata_loaded *************************)
\* has_cache: return at once when the cache holds a store
EnsureCheck(t) ==
    /\ At(t, "ensure_check")
    /\ Set(t, IF IsSome(cache) THEN Return(tk[t], "ok")
              ELSE [tk[t] EXCEPT !.pc = "ensure_read"])
    /\ UNCHANGED <<cache, fsys, remote, clock, env, proc, hist>>

\* cache miss: read and parse the file (a new store when there is none), then
\* normalize the ids
EnsureRead(t) ==
    /\ At(t, "ensure_read")
    /\ LET content == CanonContent IN
       IF IsSome(content) /\ ~Parses(content[1])
       THEN /\ Set(t, Return(tk[t], "err"))
            /\ UNCHANGED clock
       ELSE LET metadata == IF IsSome(content) THEN Deserialize(content[1])
                            ELSE MetadataStore_new
                n == normalize_file_ids(metadata, clock)
            IN /\ Set(t, [tk[t] EXCEPT !.pc = "ensure_swap", !.loaded = n.store,
                                       !.ids_changed = n.changed])
               /\ clock' = IF n.changed THEN clock + 1 ELSE clock
    /\ UNCHANGED <<cache, fsys, remote, env, proc, hist>>

\* *cache = Some(metadata.clone()); the normalized ids are persisted once
EnsureSwap(t) ==
    /\ At(t, "ensure_swap")
    /\ cache' = Some(tk[t].loaded)
    /\ Set(t, IF tk[t].ids_changed
              THEN Call([tk[t] EXCEPT !.save_store = tk[t].loaded], "save_swap", "ensure_saved")
              ELSE Return(tk[t], "ok"))
    /\ UNCHANGED <<fsys, remote, clock, env, proc, hist>>

\* save_metadata_local(&metadata).await?
EnsureSaved(t) ==
    /\ At(t, "ensure_saved")
    /\ Set(t, Return(tk[t], tk[t].rv))
    /\ UNCHANGED <<cache, fsys, remote, clock, env, proc, hist>>

(*************************** load_metadata_copy *****************************)
\* entered at "ensure_check" with "copy" below the caller's return address
CallLoadCopy(s, ret) == Call(Call(s, "copy", ret), "ensure_check", "copy")

\* ensure_metadata_loaded().await?; Ok(cache.as_ref().unwrap().clone())
Copy(t) ==
    /\ At(t, "copy")
    /\ Set(t, IF tk[t].rv = "err" THEN Return(tk[t], "err")
              ELSE Return([tk[t] EXCEPT !.metadata = cache[1], !.copied = TRUE], "ok"))
    /\ UNCHANGED <<cache, fsys, remote, clock, env, proc, hist>>

(*************************** save_metadata_local ****************************)
CallSave(s, store, ret) == Call([s EXCEPT !.save_store = store], "save_swap", ret)

\* outcomes of creating a directory or a file
DiskOutcomes == IF env.disk THEN {"ok", "err"} ELSE {"ok"}

\* save_metadata_local has returned v
Saved(s, v) == Return([s EXCEPT !.cache_before = None], v)

\* "Update cache first": the write lock is held for the swap alone;
\* cache_before is what the cache held when the call was made
SaveSwap(t) ==
    /\ At(t, "save_swap")
    /\ cache' = Some(tk[t].save_store)
    /\ Set(t, [tk[t] EXCEPT !.pc = "save_open", !.cache_before = Some(cache)])
    /\ proc' = [proc EXCEPT !.replaced = @ \/ Head(tk[t].stack) # "ensure_saved"]
    /\ UNCHANGED <<fsys, remote, clock, env, hist>>

\* tokio::fs::write, first half: the temporary file is created, or the one
\* that is there is truncated; "Failed to write metadata" when it cannot be
SaveOpen(t) ==
    /\ At(t, "save_open")
    /\ LET i == IF fsys.tmp = 0 THEN FreeInode ELSE fsys.tmp IN
       \E out \in DiskOutcomes :
         IF out = "ok"
         THEN /\ fsys' = [fsys EXCEPT !.tmp = i, !.inodes[i] = Torn]
              /\ Set(t, [tk[t] EXCEPT !.pc = "save_write", !.fd = i])
         ELSE /\ Set(t, Saved(tk[t], "err"))
              /\ UNCHANGED fsys
    /\ UNCHANGED <<cache, remote, clock, env, proc, hist>>

\* tokio::fs::write, second half: the document is written through the open
\* file.  When another writer has written the same file since this one opened
\* it, the bytes of the two may be mixed.
SaveWrite(t) ==
    /\ At(t, "save_write")
    /\ LET i == tk[t].fd
           mine == Serialize(tk[t].save_store)
       IN \E content \in (IF fsys.inodes[i] = Torn THEN {mine} ELSE {mine, Torn}) :
            fsys' = [fsys EXCEPT !.inodes[i] = content]
    /\ Set(t, [tk[t] EXCEPT !.pc = "save_rename", !.fd = 0])
    /\ UNCHANGED <<cache, remote, clock, env, proc, hist>>

\* the file that a rename replaces is gone once nobody holds it open (its
\* inode is then free, and is kept blank)
Replaced(i) == i # 0 /\ i # fsys.tmp /\ \A t \in Tasks : tk[t].fd # i

\* tokio::fs::rename(&temp_path, &path): fails when the temporary file is gone
SaveRename(t) ==
    /\ At(t, "save_rename")
    /\ IF fsys.tmp = 0
       THEN /\ Set(t, Saved(tk[t], "err"))
            /\ UNCHANGED fsys
       ELSE /\ fsys' = [fsys EXCEPT !.canon = fsys.tmp, !.tmp = 0,
                                    !.inodes = IF Replaced(fsys.canon)
                                               THEN [@ EXCEPT ![fsys.canon] = Torn] ELSE @]
            /\ Set(t, Saved(tk[t], "ok"))
    /\ UNCHANGED <<cache, remote, clock, env, proc, hist>>

(*************************** the remote channel *****************************)
\* outcomes of a remote call other than a transfer attempt
RemoteOutcomes == IF env.down THEN {"ok", "err"} ELSE {"ok"}

\* a call that is not bounded by a timeout may get no answer at all
Silence == IF env.hang THEN {"never"} ELSE {}

\* the task awaits an answer that does not come
Pending(s) == [s EXCEPT !.pc = "pending"]

ChatAlive(chat_id) == IF chat_id = None THEN TRUE ELSE chat_id[1] \in remote.alive

\* create_folder_channel: a new channel, its id the next one
CreateChannel(r, title) ==
    LET id == Len(r.titles) + 1
    IN [r EXCEPT !.titles = Append(@, title), !.alive = @ \cup {id},
                 !.next_msg = Append(@, 1)]

NextMessageId(r, chat_id) == IF IsSome(chat_id) THEN r.next_msg[chat_id[1]] ELSE r.saved_next

\* send_message: the message is in the chat, the chat's counter moves on
SendMessage(r, chat_id, name, size) ==
    LET id == NextMessageId(r, chat_id)
        r1 == [r EXCEPT !.msgs = @ \cup {[chat |-> chat_id, id |-> id, name |-> name,
                                          size |-> size]}]
    IN IF IsSome(chat_id) THEN [r1 EXCEPT !.next_msg[chat_id[1]] = id + 1]
       ELSE [r1 EXCEPT !.saved_next = id + 1]

(*************************** upload_file ************************************)
Sources ==
    {[path_ok |-> TRUE, exists |-> TRUE, name |-> <<"f">>, size |-> Size(0, 1)],
     [path_ok |-> TRUE, exists |-> TRUE, name |-> <<"g">>, size |-> Size(100, 0)],
     [path_ok |-> TRUE, exists |-> TRUE, name |-> <<"e">>, size |-> Size(0, 0)],
     [path_ok |-> TRUE, exists |-> TRUE, name |-> <<"h">>, size |-> MAX_FILE_SIZE],
     [path_ok |-> TRUE, exists |-> TRUE, name |-> <<"k">>, size |-> Size(2 * 1024, 1)],
     [path_ok |-> TRUE, exists |-> FALSE, name |-> <<"f">>, size |-> Size(0, 1)],
     [path_ok |-> FALSE, exists |-> FALSE, name |-> <<>>, size |-> Size(0, 0)]}

\* a command is called; in a serial environment only once the calls before it
\* have returned
CanStart(t, op) ==
    /\ At(t, "idle")
    /\ t \in env.tasks
    /\ env.serial => \A u \in Tasks : u < t => tk[u].pc = "done"
    /\ op \in (IF proc.restarts = 0 THEN env.ops ELSE env.after)

Begin(t, op) == [IdleTask EXCEPT !.op = op]

\* the lock of the session handle is free: no task holds its guard
Unlocked == \A u \in Tasks : ~tk[u].client_guard

\* upload_file up to the first remote call: the source and the session handle
UploadStart(s) ==
    IF ~s.source.path_ok THEN Finish(s, Err("InvalidPath"))
    ELSE IF ~s.source.exists THEN Finish(s, Err("NoSuchFile"))
    ELSE IF SizeGe(s.source.size, MAX_FILE_SIZE) THEN Finish(s, Err("PayloadTooLarge"))
    ELSE IF s.source.size = Size(0, 0) THEN Finish(s, Err("EmptySource"))
    ELSE IF ~env.client THEN Finish(s, Err("ClientNotInitialized"))
    ELSE [s EXCEPT !.pc = "up_target"]

UploadFile(t) ==
    /\ CanStart(t, "upload_file")
    /\ \E source \in env.sources, folder \in env.folders :
         /\ source.path_ok => Unlocked
         /\ Set(t, UploadStart([Begin(t, "upload_file") EXCEPT !.source = source,
                                                            !.folder = folder]))
    /\ hist' = [hist EXCEPT ![t] = NoHist]
    /\ UNCHANGED <<cache, fsys, remote, clock, env, proc>>

\* "Determine target chat based on folder"
UpTarget(t) ==
    /\ At(t, "up_target")
    /\ IF tk[t].folder = Root
       THEN \E out \in RemoteOutcomes \cup Silence :
              Set(t, IF out = "ok" THEN [tk[t] EXCEPT !.pc = "up_attempt", !.chat_id = None]
                     ELSE IF out = "never" THEN Pending(tk[t])
                     ELSE Finish(tk[t], Err("RemoteError")))
       ELSE Set(t, CallLoadCopy(tk[t], "up_resolve"))
    /\ UNCHANGED <<cache, fsys, remote, clock, env, proc, hist>>

\* the folder's record, the legacy folders list, or "Folder not found"
UpResolve(t) ==
    /\ At(t, "up_resolve")
    /\ LET s == tk[t]
           fm == s.metadata.folder_metadata
           found == {i \in 1..Len(fm) : fm[i].path = s.folder}
           existing_meta == fm[CHOOSE i \in found : \A j \in found : i <= j]
       IN Set(t, IF s.rv = "err" THEN Finish(s, Err("StorageError"))
                 ELSE IF found # {}
                 THEN IF IsSome(existing_meta.chat_id)
                      THEN [s EXCEPT !.pc = "up_peer", !.chat_id = existing_meta.chat_id]
                      ELSE Finish(s, Err("FolderMetadataCorrupted"))
                 ELSE IF SeqContains(s.metadata.folders, s.folder)
                 THEN [s EXCEPT !.pc = "up_create"]
                 ELSE Finish(s, Err("FolderNotFound")))
    /\ UNCHANGED <<cache, fsys, remote, clock, env, proc, hist>>

\* "Auto-upgrading legacy folder": create_folder_channel, then reload
UpCreate(t) ==
    /\ At(t, "up_create")
    /\ \E out \in RemoteOutcomes \cup Silence :
         IF out = "ok"
         THEN /\ remote' = CreateChannel(remote, tk[t].folder)
              /\ Set(t, CallLoadCopy([tk[t] EXCEPT !.chat_id = Some(Len(remote.titles) + 1)],
                                     "up_upgrade"))
              /\ hist' = [hist EXCEPT ![t].created = @ + 1]
         ELSE /\ Set(t, IF out = "never" THEN Pending(tk[t])
                        ELSE Finish(tk[t], Err("RemoteError")))
              /\ UNCHANGED <<remote, hist>>
    /\ UNCHANGED <<cache, fsys, clock, env, proc>>

\* an upgrade that leaves the folder's virtual entry as it was
BackFill_Skipped(files, folder, chat_id) == files

\* the first virtual entry of the folder gets the new chat id
BackFill(files, folder, chat_id) ==
    LET name == PathFileName(folder)
        parent_str == PathParent(folder)
        hits == {i \in 1..Len(files) :
                   files[i].is_folder /\ files[i].name = name /\ files[i].folder = parent_str}
    IN IF hits = {} THEN files
       ELSE [files EXCEPT ![CHOOSE i \in hits : \A j \in hits : i <= j].chat_id = chat_id]

\* the record and the back-filled entry go into the reloaded copy, which is saved
UpUpgrade(t) ==
    /\ At(t, "up_upgrade")
    /\ LET s == tk[t]
           current_metadata ==
               [s.metadata EXCEPT
                  !.folder_metadata = Append(@, FolderMetadata(s.folder, s.chat_id)),
                  !.files = BackFill(@, s.folder, s.chat_id)]
       IN Set(t, IF s.rv = "err" THEN Finish(s, Err("StorageError"))
                 ELSE CallSave(s, current_metadata, "up_upgraded"))
    /\ UNCHANGED <<cache, fsys, remote, clock, env, proc, hist>>

UpUpgraded(t) ==
    /\ At(t, "up_upgraded")
    /\ Set(t, IF tk[t].rv = "err" THEN Finish(tk[t], Err("StorageError"))
              ELSE [tk[t] EXCEPT !.pc = "up_peer"])
    /\ UNCHANGED <<cache, fsys, remote, clock, env, proc, hist>>

\* get_chat_peer(&client, chat_id).await?
UpPeer(t) ==
    /\ At(t, "up_peer")
    /\ \E out \in (IF ChatAlive(tk[t].chat_id) THEN RemoteOutcomes ELSE {"err"}) \cup Silence :
         Set(t, IF out = "ok" THEN [tk[t] EXCEPT !.pc = "up_attempt"]
                ELSE IF out = "never" THEN Pending(tk[t])
                ELSE Finish(tk[t], Err("RemoteError")))
    /\ UNCHANGED <<cache, fsys, remote, clock, env, proc, hist>>

(*************************** upload_file: the retry loop ********************)
\* the attempts of the tasks 1..n that have failed
RECURSIVE Fails(_)
Fails(n) == IF n = 0 THEN 0 ELSE tk[n].retry_count + Fails(n - 1)

\* What one attempt may come to: the message id, an error of the channel, an
\* error of attempt_upload's own timeout of upload_stream (when that is the
\* shorter one), or no answer within the attempt's timeout ("elapsed").
AttemptErrors(s) ==
    IF ~ChatAlive(s.chat_id) THEN {E_BadRequest}
    ELSE IF Fails(NumTasks) >= env.fails THEN {}
    ELSE env.errs \cup
         (IF env.hang /\ StreamTimeoutSecs(s.source.size) < AttemptTimeoutSecs(s.source.size)
          THEN {E_StreamTimedOut} ELSE {})

\* Err(e) of an attempt: count it, give up at MAX_RETRIES, else wait
AfterError(s, e) ==
    LET retry_count == s.retry_count + 1
        is_retryable == is_retryable_error(e)
    IN IF retry_count >= MAX_RETRIES
       THEN Finish([s EXCEPT !.retry_count = retry_count],
                   IF is_retryable THEN Err("TransferExhausted") ELSE Err("TransferFailed"))
       ELSE [s EXCEPT !.retry_count = retry_count, !.pc = "up_sleep"]

\* tokio::time::timeout(attempt_timeout_secs, attempt_upload(..)).await.map_err(..)?
\* and the match on its result; the attempt is made with target_chat, the
\* peer of chat_id, and new_chat has gone out of scope
UpAttempt(t) ==
    /\ At(t, "up_attempt")
    /\ LET s == [tk[t] EXCEPT !.new_chat = None] IN
       \/ /\ ChatAlive(s.chat_id)
          /\ remote' = SendMessage(remote, s.chat_id, s.source.name, s.source.size)
          /\ Set(t, CallLoadCopy([s EXCEPT !.message_id = NextMessageId(remote, s.chat_id)],
                                 "up_push"))
          /\ Log(t, Event("attempt", "ok", None, 0))
       \/ \E e \in AttemptErrors(s) :
            /\ Set(t, AfterError(s, e))
            /\ Log(t, Event("attempt", "err", Some(e), 0))
            /\ UNCHANGED remote
       \/ /\ env.hang
          /\ Set(t, Finish(s, Err("AttemptTimedOut")))
          /\ Log(t, Event("attempt", "elapsed", Some(E_AttemptTimedOut),
                          AttemptTimeoutSecs(s.source.size)))
          /\ UNCHANGED remote
    /\ UNCHANGED <<cache, fsys, clock, env, proc>>

LastError(t) == hist[t].log[Len(hist[t].log)].err[1]

\* the "retrying" event and tokio::time::sleep(wait_seconds)
UpSleep(t) ==
    /\ At(t, "up_sleep")
    /\ Log(t, Event("sleep", "", None, WaitSeconds(LastError(t), tk[t].retry_count)))
    /\ Set(t, [tk[t] EXCEPT !.pc = "up_probe"])
    /\ UNCHANGED <<cache, fsys, remote, clock, env, proc>>

\* retry_count > 0: test_client_connection before the attempt; it is false
\* also when get_me has not answered within its 10 seconds
UpProbe(t) ==
    /\ At(t, "up_probe")
    /\ \E out \in RemoteOutcomes \cup Silence :
         Set(t, [tk[t] EXCEPT !.pc = IF out = "ok" THEN "up_attempt" ELSE "up_refresh"])
    /\ Log(t, Event("probe", "", None, 0))
    /\ UNCHANGED <<cache, fsys, remote, clock, env, proc>>

\* the probe failed: "re-fetching chat peer"; new_chat is Some(chat id) when
\* a peer has been fetched
UpRefresh(t) ==
    /\ At(t, "up_refresh")
    /\ IF tk[t].folder = Root
       THEN \E out \in RemoteOutcomes \cup Silence :
              Set(t, IF out = "ok"
                     THEN [tk[t] EXCEPT !.pc = "up_attempt", !.new_chat = Some(None)]
                     ELSE IF out = "never" THEN Pending(tk[t])
                     ELSE Finish(tk[t], Err("RemoteError")))
       ELSE Set(t, CallLoadCopy(tk[t], "up_refreshed"))
    /\ UNCHANGED <<cache, fsys, remote, clock, env, proc, hist>>

\* the folder's record is looked up again and its peer fetched; new_chat is
\* matched and only printed (Ok(_new_peer)), target_chat is not assigned
UpRefreshed(t) ==
    /\ At(t, "up_refreshed")
    /\ LET s == tk[t]
           fm == s.metadata.folder_metadata
           found == {i \in 1..Len(fm) : fm[i].path = s.folder}
           existing_meta == fm[CHOOSE i \in found : \A j \in found : i <= j]
           outs == IF s.rv = "err" \/ found = {} THEN {"err"}
                   ELSE IF ChatAlive(existing_meta.chat_id) THEN RemoteOutcomes
                   ELSE {"err"}
       IN \E out \in outs \cup Silence :
            Set(t, IF s.rv = "err" THEN Finish(s, Err("StorageError"))
                   ELSE IF found = {} THEN Finish(s, Err("FolderNotFound"))
                   ELSE IF ~IsSome(existing_meta.chat_id)
                   THEN Finish(s, Err("FolderMissingChatId"))
                   ELSE IF out = "never" THEN Pending(s)
                   ELSE IF out = "ok"
                   THEN [s EXCEPT !.pc = "up_attempt", !.new_chat = Some(existing_meta.chat_id)]
                   ELSE [s EXCEPT !.pc = "up_attempt"])
    /\ UNCHANGED <<cache, fsys, remote, clock, env, proc, hist>>

\* an upload that fails when the store cannot be loaded after the transfer
UpPush_FailsOnLoadError(t) ==
    /\ At(t, "up_push")
    /\ LET s == tk[t]
           unique_id == RemoteId(s.chat_id, s.message_id)
           entry == FileEntry(unique_id, s.source.name, s.source.size, s.folder, FALSE,
                              Some(s.message_id), s.chat_id)
       IN Set(t, IF s.rv = "err" THEN Finish(s, Err("StorageError"))
                 ELSE CallSave(s, [s.metadata EXCEPT !.files = Append(@, entry)], "up_saved"))
    /\ UNCHANGED <<cache, fsys, remote, clock, env, proc, hist>>

\* "Update metadata": the new entry goes into a fresh copy, which is saved; a
\* failure to load is only printed
UpPush(t) ==
    /\ At(t, "up_push")
    /\ LET s == tk[t]
           unique_id == RemoteId(s.chat_id, s.message_id)
           entry == FileEntry(unique_id, s.source.name, s.source.size, s.folder, FALSE,
                              Some(s.message_id), s.chat_id)
       IN Set(t, IF s.rv = "err" THEN Finish(s, Ok(ToString(s.message_id)))
                 ELSE CallSave(s, [s.metadata EXCEPT !.files = Append(@, entry)], "up_saved"))
    /\ UNCHANGED <<cache, fsys, remote, clock, env, proc, hist>>

\* a failure to save is only printed: Ok(message_id.to_string())
UpSaved(t) ==
    /\ At(t, "up_saved")
    /\ Set(t, Finish(tk[t], Ok(ToString(tk[t].message_id))))
    /\ UNCHANGED <<cache, fsys, remote, clock, env, proc, hist>>

(*************************** create_folder **********************************)
\* str::trim
RECURSIVE TrimStart(_)
TrimStart(n) == IF n # <<>> /\ Head(n) = " " THEN TrimStart(Tail(n)) ELSE n
RECURSIVE TrimEnd(_)
TrimEnd(n) == IF n # <<>> /\ n[Len(n)] = " " THEN TrimEnd(SubSeq(n, 1, Len(n) - 1)) ELSE n
Trim(n) == TrimEnd(TrimStart(n))

\* .replace('/', "_").replace('\\', "_")
Sanitize(n) == [i \in 1..Len(n) |-> IF n[i] \in {"/", "\\"} THEN "_" ELSE n[i]]

\* parent_folder.trim_end_matches('/')
RECURSIVE TrimEndSlashes(_)
TrimEndSlashes(p) ==
    IF p # <<>> /\ p[Len(p)] = "/" THEN TrimEndSlashes(SubSeq(p, 1, Len(p) - 1)) ELSE p

FullPath(parent_folder, sanitized_name) ==
    IF parent_folder = Root THEN <<"/">> \o sanitized_name
    ELSE TrimEndSlashes(parent_folder) \o <<"/">> \o sanitized_name

\* create_folder up to load_metadata_copy: the name
CreateFolder(t) ==
    /\ CanStart(t, "create_folder")
    /\ \E folder_name \in env.names, parent_folder \in env.parents :
         LET s == [Begin(t, "create_folder") EXCEPT !.folder_name = folder_name,
                                                     !.name = Sanitize(Trim(folder_name)),
                                                     !.folder = parent_folder]
         IN Set(t, IF Trim(folder_name) = <<>> THEN Finish(s, Err("EmptyName"))
                   ELSE IF s.name = <<>> THEN Finish(s, Err("InvalidName"))
                   ELSE CallLoadCopy(s, "cf_check"))
    /\ hist' = [hist EXCEPT ![t] = NoHist]
    /\ UNCHANGED <<cache, fsys, remote, clock, env, proc>>

\* a check that finds no name taken
NameTaken_Never(files, parent_folder, sanitized_name) == FALSE

\* "Check if a file/folder with this name already exists in the parent folder"
NameTaken(files, parent_folder, sanitized_name) ==
    \E i \in 1..Len(files) :
      /\ files[i].folder = parent_folder
      /\ files[i].name = sanitized_name

\* "Check if folder already exists", then the name in the parent, then the
\* session handle
CfCheck(t) ==
    /\ At(t, "cf_check")
    /\ LET s == tk[t]
           full_path == FullPath(s.folder, s.name)
           existing == NameTaken(s.metadata.files, s.folder, s.name)
       IN Set(t, IF s.rv = "err" THEN Finish(s, Err("StorageError"))
                 ELSE IF SeqContains(s.metadata.folders, full_path)
                 THEN Finish(s, Err("FolderAlreadyExists"))
                 ELSE IF existing THEN Finish(s, Err("NameCollision"))
                 ELSE IF ~env.client THEN Finish(s, Err("ClientNotInitialized"))
                 ELSE [s EXCEPT !.pc = "cf_create"])
    /\ UNCHANGED <<cache, fsys, remote, clock, env, proc, hist>>

\* create_folder_channel, then the folder goes into the copy loaded before
\* the channel was made, and the copy is saved
CfCreate(t) ==
    /\ At(t, "cf_create")
    /\ \E out \in RemoteOutcomes :
         IF out = "ok"
         THEN LET s == tk[t]
                  full_path == FullPath(s.folder, s.name)
                  chat_id == Some(Len(remote.titles) + 1)
                  metadata ==
                      [s.metadata EXCEPT
                         !.folders = Append(@, full_path),
                         !.folder_metadata = Append(@, FolderMetadata(full_path, chat_id)),
                         !.files = Append(@, FileEntry(FolderId(clock), s.name, Size(0, 0),
                                                       s.folder, TRUE, None, chat_id))]
              IN /\ remote' = CreateChannel(remote, full_path)
                 /\ clock' = clock + 1
                 /\ Set(t, CallSave([s EXCEPT !.chat_id = chat_id], metadata, "cf_saved"))
                 /\ hist' = [hist EXCEPT ![t].created = @ + 1]
         ELSE /\ Set(t, Finish(tk[t], Err("RemoteError")))
              /\ UNCHANGED <<remote, clock, hist>>
    /\ UNCHANGED <<cache, fsys, env, proc>>

\* save_metadata_local(&metadata).await?; Ok(full_path)
CfSaved(t) ==
    /\ At(t, "cf_saved")
    /\ Set(t, IF tk[t].rv = "err" THEN Finish(tk[t], Err("StorageError"))
              ELSE Finish(tk[t], Ok("full_path")))
    /\ UNCHANGED <<cache, fsys, remote, clock, env, proc, hist>>

(*************************** delete_file ************************************)
Position(files, file_id) ==
    LET hits == {i \in 1..Len(files) : files[i].id = file_id}
    IN IF hits = {} THEN 0 ELSE CHOOSE i \in hits : \A j \in hits : i <= j

\* Vec::remove
RemoveAt(files, pos) == SubSeq(files, 1, pos - 1) \o SubSeq(files, pos + 1, Len(files))

DeleteFile(t) ==
    /\ CanStart(t, "delete_file")
    /\ \E file_id \in env.file_ids :
         Set(t, CallLoadCopy([Begin(t, "delete_file") EXCEPT !.file_id = file_id], "df_find"))
    /\ hist' = [hist EXCEPT ![t] = NoHist]
    /\ UNCHANGED <<cache, fsys, remote, clock, env, proc>>

\* the entry's position in the copy; without a message id or a session handle
\* nothing is deleted remotely
DfFind(t) ==
    /\ At(t, "df_find")
    /\ LET s == tk[t]
           pos == Position(s.metadata.files, s.file_id)
       IN Set(t, IF s.rv = "err" THEN Finish(s, Err("StorageError"))
                 ELSE IF pos = 0 THEN Finish(s, Ok("false"))
                 ELSE IF IsSome(s.metadata.files[pos].message_id) /\ env.client
                 THEN [s EXCEPT !.pc = "df_remote"]
                 ELSE CallSave(s, [s.metadata EXCEPT !.files = RemoveAt(@, pos)], "df_saved"))
    /\ UNCHANGED <<cache, fsys, remote, clock, env, proc, hist>>

\* a delete_file that gives up when the message cannot be deleted
DfRemote_FailsOnRemoteError(t) ==
    /\ At(t, "df_remote")
    /\ LET s == tk[t]
           pos == Position(s.metadata.files, s.file_id)
           file_meta == s.metadata.files[pos]
       IN \E out \in (IF ChatAlive(file_meta.chat_id) THEN RemoteOutcomes ELSE {"err"}) :
            IF out = "ok"
            THEN /\ remote' = [remote EXCEPT !.msgs = {m \in @ : ~(m.chat = file_meta.chat_id
                                                                   /\ m.id = file_meta.message_id[1])}]
                 /\ Set(t, CallSave(s, [s.metadata EXCEPT !.files = RemoveAt(@, pos)], "df_saved"))
            ELSE /\ UNCHANGED remote
                 /\ Set(t, Finish(s, Err("RemoteError")))
    /\ UNCHANGED <<cache, fsys, clock, env, proc, hist>>

\* the chat is resolved and the message deleted; a failure of either is only
\* printed.  Then the entry leaves the copy, which is saved.
DfRemote(t) ==
    /\ At(t, "df_remote")
    /\ LET s == tk[t]
           pos == Position(s.metadata.files, s.file_id)
           file_meta == s.metadata.files[pos]
       IN /\ \E out \in (IF ChatAlive(file_meta.chat_id) THEN RemoteOutcomes ELSE {"err"}) :
               remote' = IF out = "ok"
                         THEN [remote EXCEPT !.msgs = {m \in @ : ~(m.chat = file_meta.chat_id
                                                                   /\ m.id = file_meta.message_id[1])}]
                         ELSE remote
          /\ Set(t, CallSave(s, [s.metadata EXCEPT !.files = RemoveAt(@, pos)], "df_saved"))
    /\ UNCHANGED <<cache, fsys, clock, env, proc, hist>>

DfSaved(t) ==
    /\ At(t, "df_saved")
    /\ Set(t, IF tk[t].rv = "err" THEN Finish(tk[t], Err("StorageError"))
              ELSE Finish(tk[t], Ok("true")))
    /\ UNCHANGED <<cache, fsys, remote, clock, env, proc, hist>>

(*************************** delete_folder ***********************************)
\* str::starts_with
StartsWith(str, prefix) == Len(str) >= Len(prefix) /\ SubSeq(str, 1, Len(prefix)) = prefix

\* format!("{}/", folder_path)
FolderPrefix(folder_path) == folder_path \o <<"/">>

\* the path a virtual folder entry stands for
EntryFullPath(f) == IF f.folder = Root THEN <<"/">> \o f.name ELSE f.folder \o <<"/">> \o f.name

\* the three retains: the folder's record, its path in the folders list, and
\* the entries in the folder, under it, or standing for it
RemoveFolder(metadata, folder_path) ==
    [metadata EXCEPT
       !.folder_metadata = SelectSeq(@, LAMBDA f : f.path # folder_path),
       !.folders = SelectSeq(@, LAMBDA f : f # folder_path),
       !.files = SelectSeq(@, LAMBDA f :
                   ~(\/ f.folder = folder_path
                     \/ StartsWith(f.folder, FolderPrefix(folder_path))
                     \/ (f.is_folder /\ EntryFullPath(f) = folder_path)))]

DeleteFolder(t) ==
    /\ CanStart(t, "delete_folder")
    /\ \E folder_path \in env.folders :
         Set(t, CallLoadCopy([Begin(t, "delete_folder") EXCEPT !.folder = folder_path],
                             "dl_find"))
    /\ hist' = [hist EXCEPT ![t] = NoHist]
    /\ UNCHANGED <<cache, fsys, remote, clock, env, proc>>

\* the folder's record; without one nothing is done: Ok(false)
DlFind(t) ==
    /\ At(t, "dl_find")
    /\ LET s == tk[t]
           fm == s.metadata.folder_metadata
           found == {i \in 1..Len(fm) : fm[i].path = s.folder}
           folder_meta == fm[CHOOSE i \in found : \A j \in found : i <= j]
       IN Set(t, IF s.rv = "err" THEN Finish(s, Err("StorageError"))
                 ELSE IF found = {} THEN Finish(s, Ok("false"))
                 ELSE IF IsSome(folder_meta.chat_id) /\ env.client
                 THEN [s EXCEPT !.pc = "dl_remote", !.chat_id = folder_meta.chat_id]
                 ELSE CallSave(s, RemoveFolder(s.metadata, s.folder), "dl_saved"))
    /\ UNCHANGED <<cache, fsys, remote, clock, env, proc, hist>>

\* delete_channel, its failure only printed; then the retains and the save
DlRemote(t) ==
    /\ At(t, "dl_remote")
    /\ LET s == tk[t] IN
       /\ \E out \in (IF ChatAlive(s.chat_id) THEN RemoteOutcomes ELSE {"err"}) :
            remote' = IF out = "ok" THEN [remote EXCEPT !.alive = @ \ {s.chat_id[1]}]
                      ELSE remote
       /\ Set(t, CallSave(s, RemoveFolder(s.metadata, s.folder), "dl_saved"))
    /\ UNCHANGED <<cache, fsys, clock, env, proc, hist>>

DlSaved(t) ==
    /\ At(t, "dl_saved")
    /\ Set(t, IF tk[t].rv = "err" THEN Finish(tk[t], Err("StorageError"))
              ELSE Finish(tk[t], Ok("true")))
    /\ UNCHANGED <<cache, fsys, remote, clock, env, proc, hist>>

(*************************** migrate_files_to_folders ************************)
\* "files that need migration (in folders but no chat_id)"
NeedsMigration(f) == ~f.is_folder /\ f.folder # Root /\ f.chat_id = None

\* a record of the folder, with or without a chat id
FolderHasChannel_AnyRecord(metadata, folder) ==
    \E i \in 1..Len(metadata.folder_metadata) : metadata.folder_metadata[i].path = folder

\* a record of the folder with a chat id, in the store loaded at the start
FolderHasChannel(metadata, folder) ==
    \E i \in 1..Len(metadata.folder_metadata) :
      metadata.folder_metadata[i].path = folder /\ IsSome(metadata.folder_metadata[i].chat_id)

\* the candidate at hand, and its file in the temporary directory
Candidate(s) == s.mig.files[s.mig.index]
TempFiles(file_id) == {f \in fsys.temp : f.id = file_id}

\* a callee of the orchestrator starts with its own locals
SubCall(s, ret) == [IdleTask EXCEPT !.op = s.op, !.mig = s.mig, !.caller = ret]

\* the candidate is counted and the loop goes on with the next one
Counted(s, counter) ==
    [s EXCEPT !.pc = "mg_next", !.caller = "", !.stack = <<>>,
              !.mig.index = @ + 1,
              !.mig.migrated = IF counter = "migrated" THEN @ + 1 ELSE @,
              !.mig.failed = IF counter = "failed" THEN @ + 1 ELSE @,
              !.mig.skipped = IF counter = "skipped" THEN @ + 1 ELSE @]

MigrateFiles(t) ==
    /\ CanStart(t, "migrate_files_to_folders")
    /\ Set(t, CallLoadCopy(Begin(t, "migrate_files_to_folders"), "mg_collect"))
    /\ hist' = [hist EXCEPT ![t] = NoHist]
    /\ UNCHANGED <<cache, fsys, remote, clock, env, proc>>

MgCollect(t) ==
    /\ At(t, "mg_collect")
    /\ LET s == tk[t]
           files_to_migrate == SelectSeq(s.metadata.files, NeedsMigration)
       IN Set(t, IF s.rv = "err" THEN Finish(s, Err("StorageError"))
                 ELSE [s EXCEPT !.pc = "mg_next",
                                !.mig = [NoMigration EXCEPT !.metadata = s.metadata,
                                                            !.files = files_to_migrate,
                                                            !.index = 1,
                                                            !.total = Len(files_to_migrate)]])
    /\ UNCHANGED <<cache, fsys, remote, clock, env, proc, hist>>

\* the head of the loop: the report after the last candidate; a candidate of
\* a folder without channel is skipped; else the temporary directory is made
\* and download_file is entered, up to its ensure_metadata_loaded
MgNext(t) ==
    /\ At(t, "mg_next")
    /\ LET s == tk[t] IN
       IF s.mig.index > Len(s.mig.files) THEN Set(t, Finish(s, Ok("report")))
       ELSE IF ~FolderHasChannel(s.mig.metadata, Candidate(s).folder)
       THEN Set(t, Counted(s, "skipped"))
       ELSE \E out \in DiskOutcomes :
              Set(t, IF out = "err" THEN Finish(s, Err("StorageError"))
                     ELSE Call(SubCall(s, "mg_next"), "ensure_check", "dn_find"))
    /\ UNCHANGED <<cache, fsys, remote, clock, env, proc, hist>>

\* download_file: the entry of the id in the cache, its message id, the
\* session handle
DnFind(t) ==
    /\ At(t, "dn_find")
    /\ LET s == tk[t]
           pos == IF s.rv = "err" THEN 0 ELSE Position(cache[1].files, Candidate(s).id)
       IN Set(t, IF pos = 0 THEN Counted(s, "failed")
                 ELSE IF cache[1].files[pos].message_id = None \/ ~env.client
                 THEN Counted(s, "failed")
                 ELSE [s EXCEPT !.pc = "dn_open", !.chat_id = cache[1].files[pos].chat_id,
                                !.message_id = cache[1].files[pos].message_id[1]])
    /\ UNCHANGED <<cache, fsys, remote, clock, env, proc, hist>>

\* the chat is resolved and its messages are searched for the message id;
\* when the message is found the destination file is created
DnOpen(t) ==
    /\ At(t, "dn_open")
    /\ LET s == tk[t]
           found == \E m \in remote.msgs : m.chat = s.chat_id /\ m.id = s.message_id
       IN \E out \in (IF ChatAlive(s.chat_id) THEN RemoteOutcomes ELSE {"err"}),
             created \in DiskOutcomes :
            IF out = "ok" /\ found /\ created = "ok"
            THEN /\ fsys' = [fsys EXCEPT !.temp = (@ \ TempFiles(Candidate(s).id))
                                           \cup {[id |-> Candidate(s).id, size |-> Size(0, 0)]}]
                 /\ Set(t, [s EXCEPT !.pc = "dn_stream"])
            ELSE /\ Set(t, Counted(s, "failed"))
                 /\ UNCHANGED fsys
    /\ UNCHANGED <<cache, remote, clock, env, proc, hist>>

\* the chunks are written; a failure of the stream ends the download with the
\* destination file as far as it was written.  After the download
\* upload_file is entered with the temporary file, up to its first remote call
DnStream(t) ==
    /\ At(t, "dn_stream")
    /\ LET s == tk[t]
           file == Candidate(s)
           message == CHOOSE m \in remote.msgs : m.chat = s.chat_id /\ m.id = s.message_id
       IN \E out \in RemoteOutcomes :
            IF out = "ok"
            THEN /\ fsys' = [fsys EXCEPT !.temp = (@ \ TempFiles(file.id))
                                           \cup {[id |-> file.id, size |-> message.size]}]
                 /\ Set(t, UploadStart([SubCall(s, "mg_uploaded") EXCEPT
                                          !.source = [path_ok |-> TRUE, exists |-> TRUE,
                                                      name |-> <<file.id>>,
                                                      size |-> message.size],
                                          !.folder = file.folder]))
            ELSE /\ Set(t, Counted(s, "failed"))
                 /\ UNCHANGED fsys
    /\ UNCHANGED <<cache, remote, clock, env, proc, hist>>

\* an orchestrator that deletes the original whatever upload_file returned
MgUploaded_DeletesAlways(t) ==
    /\ At(t, "mg_uploaded")
    /\ Set(t, CallLoadCopy([SubCall(tk[t], "mg_deleted") EXCEPT !.file_id = Candidate(tk[t]).id],
                           "df_find"))
    /\ UNCHANGED <<cache, fsys, remote, clock, env, proc, hist>>

\* after upload_file: delete_file is entered for the original, or the
\* candidate has failed and its temporary file is removed
MgUploaded(t) ==
    /\ At(t, "mg_uploaded")
    /\ LET s == tk[t]
           file == Candidate(s)
       IN IF s.result[1].ok
          THEN /\ Set(t, CallLoadCopy([SubCall(s, "mg_deleted") EXCEPT !.file_id = file.id],
                                      "df_find"))
               /\ UNCHANGED fsys
          ELSE /\ Set(t, Counted(s, "failed"))
               /\ fsys' = [fsys EXCEPT !.temp = @ \ TempFiles(file.id)]
    /\ UNCHANGED <<cache, remote, clock, env, proc, hist>>

\* after delete_file, whatever it returned: the candidate is migrated and its
\* temporary file is removed
MgDeleted(t) ==
    /\ At(t, "mg_deleted")
    /\ Set(t, Counted(tk[t], "migrated"))
    /\ fsys' = [fsys EXCEPT !.temp = @ \ TempFiles(Candidate(tk[t]).id)]
    /\ UNCHANGED <<cache, remote, clock, env, proc, hist>>

(*************************** ProgressReader, ProgressWriter ******************)
\* the pairs <<current_size, total_size>> of the totals of TransferSizes for
\* which (current as f64 / total as f64) * 100.0 is below the integer that
\* current * 100 / total is
F64Undershoot ==
    {<<29, 100>>, <<57, 100>>, <<58, 100>>, <<58, 200>>, <<114, 200>>, <<116, 200>>}

\* ((current_size as f64 / total_size as f64) * 100.0) as u32
Percent(current_size, total_size) ==
    (current_size * 100) \div total_size
      - (IF <<current_size, total_size>> \in F64Undershoot THEN 1 ELSE 0)

Abs(x) == IF x < 0 THEN -x ELSE x

\* the wrapper of a stream of total_size bytes, made at time now; polls
\* counts the polls that transferred bytes, calls the calls of on_progress,
\* calls_0 and calls_100 those with 0 and with 100 percent; read_len is what
\* the last poll transferred
NewProgress(total_size, now) ==
    [NoProgress EXCEPT !.total_size = total_size, !.last_reported_time = now, !.now = now]

\* a throttle that lets the milestones through and nothing else
Emits_MilestonesOnly(p, progress, now) == progress = 100 \/ progress = 0

\* the throttle: a milestone, or a second has passed and the progress has
\* moved by 5 points or 5 seconds have passed
Emits(p, progress, now) ==
    LET elapsed_ms == now - p.last_reported_time
        time_passed == elapsed_ms >= 1000
        stale == elapsed_ms >= 5000
        significant_change == Abs(progress - p.last_reported_progress) >= 5
        is_milestone == progress = 100 \/ progress = 0
    IN is_milestone \/ (time_passed /\ (significant_change \/ stale))

\* the inner poll has transferred n bytes at time now
Polled(p, n, now) ==
    LET current_size == p.current_size + n
        q == [p EXCEPT !.current_size = current_size, !.now = now,
                       !.polls = IF n > 0 THEN @ + 1 ELSE @, !.read_len = n]
    IN IF n > 0 /\ p.total_size > 0
       THEN LET progress == Percent(current_size, p.total_size) IN
            IF Emits(p, progress, now)
            THEN [q EXCEPT !.last_reported_progress = progress, !.last_reported_time = now,
                           !.calls = @ + 1,
                           !.calls_0 = IF progress = 0 THEN @ + 1 ELSE @,
                           !.calls_100 = IF progress = 100 THEN @ + 1 ELSE @]
            ELSE q
       ELSE q

(*************************** sync_from_telegram *****************************)
\* the messages of Saved Messages as iter_messages yields them, newest first,
\* each as the entry sync_from_telegram makes of it
RECURSIVE ScanSaved(_)
ScanSaved(msgs) ==
    IF msgs = {} THEN <<>>
    ELSE LET m == CHOOSE x \in msgs : \A y \in msgs : y.id <= x.id
         IN <<FileEntry(RemoteId(None, m.id), m.name, m.size, Root, FALSE, Some(m.id), None)>>
            \o ScanSaved(msgs \ {m})

\* the scanned entries whose message id no entry of the store has yet
RECURSIVE MergeNew(_, _)
MergeNew(files, new_files) ==
    IF new_files = <<>> THEN files
    ELSE LET file == Head(new_files)
             known == \E i \in 1..Len(files) : files[i].message_id = file.message_id
         IN MergeNew(IF known THEN files ELSE Append(files, file), Tail(new_files))

\* the session handle and get_me
SyncFromTelegram(t) ==
    /\ CanStart(t, "sync_from_telegram")
    /\ \E out \in RemoteOutcomes :
         LET s == Begin(t, "sync_from_telegram")
         IN Set(t, IF ~env.client THEN Finish(s, Err("ClientNotInitialized"))
                   ELSE IF out = "err" THEN Finish(s, Err("RemoteError"))
                   ELSE [s EXCEPT !.pc = "sy_scan"])
    /\ hist' = [hist EXCEPT ![t] = NoHist]
    /\ UNCHANGED <<cache, fsys, remote, clock, env, proc>>

\* the scan of Saved Messages; nothing found: Ok(0)
SyScan(t) ==
    /\ At(t, "sy_scan")
    /\ \E out \in RemoteOutcomes :
         LET new_files == ScanSaved({m \in remote.msgs : m.chat = None})
         IN Set(t, IF out = "err" THEN Finish(tk[t], Err("RemoteError"))
                   ELSE IF new_files = <<>> THEN Finish(tk[t], Ok("0"))
                   ELSE CallLoadCopy([tk[t] EXCEPT !.new_files = new_files], "sy_merge"))
    /\ UNCHANGED <<cache, fsys, remote, clock, env, proc, hist>>

\* load_metadata_copy().await.unwrap_or_else(|_| MetadataStore::new()), the
\* new entries pushed, the store saved
SyMerge(t) ==
    /\ At(t, "sy_merge")
    /\ LET s == tk[t]
           store == IF s.rv = "err" THEN MetadataStore_new ELSE s.metadata
       IN Set(t, CallSave(s, [store EXCEPT !.files = MergeNew(@, s.new_files)], "sy_saved"))
    /\ UNCHANGED <<cache, fsys, remote, clock, env, proc, hist>>

SySaved(t) ==
    /\ At(t, "sy_saved")
    /\ Set(t, IF tk[t].rv = "err" THEN Finish(tk[t], Err("StorageError"))
              ELSE Finish(tk[t], Ok(ToString(Len(tk[t].new_files)))))
    /\ UNCHANGED <<cache, fsys, remote, clock, env, proc, hist>>

(*************************** the process ends and starts again **************)
InSave(t) == tk[t].pc \in {"save_swap", "save_open", "save_write", "save_rename"}

\* The process ends where it is (a crash, or an exit once its tasks are done)
\* and a new one starts: the cache is empty again, no task runs, open files
\* are closed; the data directory and the account are what they were.
Restart ==
    /\ proc.restarts < MaxRestarts
    /\ \E t \in Tasks : tk[t].pc # "idle"
    /\ proc' = [restarts |-> proc.restarts + 1,
                persisted |-> IF /\ IsSome(cache)
                                 /\ CanonContent = Some(Serialize(cache[1]))
                                 /\ \A t \in Tasks : ~InSave(t)
                              THEN cache ELSE None,
                in_save |-> \E t \in Tasks : InSave(t),
                replaced |-> FALSE]
    /\ cache' = None
    /\ tk' = [t \in Tasks |-> IdleTask]
    /\ hist' = [t \in Tasks |-> NoHist]
    /\ UNCHANGED <<fsys, remote, clock, env>>

(*************************** initial states *********************************)
\* the store that create_folder("A", "/") leaves, chat 1 being the folder's channel
StoreWithFolderA ==
    [version |-> 2,
     files |-> <<FileEntry(FolderId(0), <<"A">>, Size(0, 0), Root, TRUE, None, Some(1))>>,
     folders |-> <<Root, PathA>>,
     folder_metadata |-> <<FolderMetadata(PathA, Some(1))>>]

\* a document of schema version 1: the folder /A is known by the folders list
\* and its virtual entry alone
LegacyDocFolderA ==
    [kind |-> "doc", version |-> None,
     files |-> <<FileEntry("folder_A", <<"A">>, Size(0, 0), Root, TRUE, None, None),
                 FileEntry("1", <<"r">>, Size(0, 1), Root, FALSE, Some(1), None)>>,
     folders |-> <<Root, PathA>>,
     folder_metadata |-> None]

\* temp: the files of the migration's temporary directory
NoFiles == [canon |-> 0, tmp |-> 0, inodes |-> [i \in Inodes |-> Torn], temp |-> {}]
FilesWith(doc) ==
    [canon |-> 1, tmp |-> 0, inodes |-> [i \in Inodes |-> IF i = 1 THEN doc ELSE Torn],
     temp |-> {}]

NoChannels == [titles |-> <<>>, alive |-> {}, next_msg |-> <<>>, saved_next |-> 1, msgs |-> {}]
\* the account of the legacy document: its one file is message 1 of Saved Messages
LegacyAccount ==
    [NoChannels EXCEPT !.saved_next = 2,
                       !.msgs = {[chat |-> None, id |-> 1, name |-> <<"r">>, size |-> Size(0, 1)]}]
ChannelA == [titles |-> <<PathA>>, alive |-> {1}, next_msg |-> <<1>>, saved_next |-> 1, msgs |-> {}]

\* restarts: how often the process was started again.  persisted: the store
\* that cache and file both held, no save being under way, when the process
\* last ended (None when they differed).  in_save: whether it ended inside a
\* save_metadata_local.  replaced: whether an operation has replaced the store
\* since the process started.
FirstProcess == [restarts |-> 0, persisted |-> None, in_save |-> FALSE, replaced |-> FALSE]

\* the process starts: nothing is cached, no task runs
InitProcess ==
    /\ cache = None
    /\ clock = 1
    /\ proc = FirstProcess
    /\ tk = [t \in Tasks |-> IdleTask]
    /\ hist = [t \in Tasks |-> NoHist]

\* what is on disk and in the account when the process starts
InitWorld ==
    \/ fsys = NoFiles /\ remote = NoChannels
    \/ fsys = FilesWith(Serialize(StoreWithFolderA)) /\ remote = ChannelA
    \/ fsys = FilesWith(LegacyDocFolderA) /\ remote = LegacyAccount

(*************************** one upload *************************************)
UploadEnv ==
    [tasks |-> {1}, ops |-> {"upload_file"}, sources |-> Sources, folders |-> {Root, PathA},
     names |-> {}, parents |-> {}, file_ids |-> {}, after |-> {},
     client |-> TRUE, errs |-> ChannelErrors, hang |-> TRUE, down |-> TRUE, disk |-> FALSE, serial |-> FALSE, fails |-> AnyFails]

InitUpload == InitProcess /\ InitWorld /\ env = UploadEnv

CacheStep(t) ==
    \/ EnsureCheck(t)
    \/ EnsureRead(t)
    \/ EnsureSwap(t)
    \/ EnsureSaved(t)
    \/ Copy(t)
    \/ SaveSwap(t)
    \/ SaveOpen(t)
    \/ SaveWrite(t)
    \/ SaveRename(t)

\* upload_file outside the retry path
TransferStep(t) ==
    \/ UploadFile(t)
    \/ UpTarget(t)
    \/ UpResolve(t)
    \/ UpCreate(t)
    \/ UpUpgrade(t)
    \/ UpUpgraded(t)
    \/ UpPeer(t)
    \/ UpAttempt(t)
    \/ UpPush(t)
    \/ UpSaved(t)

\* what follows an attempt that failed
RetryStep(t) ==
    \/ UpSleep(t)
    \/ UpProbe(t)
    \/ UpRefresh(t)
    \/ UpRefreshed(t)

NextUpload == \E t \in Tasks : CacheStep(t) \/ TransferStep(t) \/ RetryStep(t)

\* one upload_file call in a fresh process, the channel free to fail in every way
SpecUpload == InitUpload /\ [][NextUpload]_vars

(*************************** the retry loop's claims ************************)
Attempts(t) == SelectSeq(hist[t].log, LAMBDA e : e.ev = "attempt")
Sleeps(t) == SelectSeq(hist[t].log, LAMBDA e : e.ev = "sleep")
Probes(t) == SelectSeq(hist[t].log, LAMBDA e : e.ev = "probe")
Kinds(t) == [i \in 1..Len(hist[t].log) |-> hist[t].log[i].ev]

Done(t) == tk[t].pc = "done"
Result(t) == tk[t].result[1]
\* an attempt that failed: with an error of the channel, or by its timeout
Failed(a) == a.out \in {"err", "elapsed"}

\* C1: when the first attempt of an upload fails with an error that
\* is_retryable_error classifies as not retryable, that attempt is the only
\* one: no sleep, no probe, no second attempt, and the upload returns
\* TransferFailed.
C1_FatalFirstErrorEndsUpload ==
    \A t \in Tasks :
      LET a == Attempts(t) IN
      (Len(a) >= 1 /\ a[1].out = "err" /\ ~is_retryable_error(a[1].err[1]))
        => /\ Len(a) = 1
           /\ Sleeps(t) = <<>>
           /\ Probes(t) = <<>>
           /\ Done(t) => Result(t) = Err("TransferFailed")

\* C2: an upload makes at most MAX_RETRIES = 5 attempts, and when all five
\* failed, the last with a retryable error, it has returned TransferExhausted
\* and the fifth attempt is the last thing it did.
C2_FiveAttemptsThenExhausted ==
    \A t \in Tasks :
      LET a == Attempts(t) IN
      /\ Len(a) <= MAX_RETRIES
      /\ (Len(a) = MAX_RETRIES /\ (\A i \in 1..Len(a) : Failed(a[i]))
            /\ is_retryable_error(a[MAX_RETRIES].err[1]))
           => /\ Done(t)
              /\ Result(t) = Err("TransferExhausted")
              /\ hist[t].log[Len(hist[t].log)].ev = "attempt"

\* the attempts of task t came to [flood_wait_12, a timeout error, success]
FloodTimeoutSuccess(t) ==
    LET a == Attempts(t) IN
    /\ Len(a) >= 3
    /\ a[1].out = "err" /\ a[1].err[1] = E_Flood12
    /\ a[2].out = "err" /\ a[2].err[1] \in {E_Timeout, E_StreamTimedOut}
    /\ a[3].out = "ok"

\* C3: when the attempts of an upload come to [flood_wait_12, timeout error,
\* success], there are exactly 3 attempts, a sleep of at least 12 s between
\* the first and the second, the exponential backoff (2 s) between the second
\* and the third, and the upload returns success.
C3_FloodTimeoutSuccess ==
    \A t \in Tasks :
      FloodTimeoutSuccess(t)
        => /\ Len(Attempts(t)) = 3
           /\ Kinds(t) = <<"attempt", "sleep", "probe", "attempt", "sleep", "probe", "attempt">>
           /\ Sleeps(t)[1].secs >= 12
           /\ Sleeps(t)[2].secs = 2
           /\ Done(t) => Result(t).ok

\* C3 (witness): an upload whose attempts came to [flood_wait_12, timeout error,
\* success] has returned success.
C3_Witness ==
    \E t \in Tasks : FloodTimeoutSuccess(t) /\ Done(t) /\ Result(t).ok

\* C4: an attempt that exceeds the attempt's timeout while fewer than 5
\* attempts have been made does not end the upload: it is not finished with
\* an error at that point.
C4_TimeoutIsRetried ==
    \A t \in Tasks :
      LET a == Attempts(t) IN
      (Len(a) >= 1 /\ Len(a) < MAX_RETRIES /\ a[Len(a)].out = "elapsed") => ~Done(t)

(*************************** the whole layer ********************************)
\* two tasks, each running one operation, the channel answering every call;
\* a process that was restarted is asked for delete_file alone
CalmEnv ==
    [tasks |-> Tasks, ops |-> {"upload_file", "create_folder", "delete_file",
                               "sync_from_telegram"},
     sources |-> {[path_ok |-> TRUE, exists |-> TRUE, name |-> <<"f">>, size |-> Size(0, 1)]},
     folders |-> {Root, PathA}, names |-> {<<"A">>}, parents |-> {Root},
     file_ids |-> {"saved:1"}, after |-> {"delete_file"},
     client |-> TRUE, errs |-> {}, hang |-> FALSE, down |-> FALSE, disk |-> FALSE, serial |-> FALSE, fails |-> AnyFails]

Init == InitProcess /\ InitWorld /\ env = CalmEnv

FolderStep(t) ==
    \/ CreateFolder(t)
    \/ CfCheck(t)
    \/ CfCreate(t)
    \/ CfSaved(t)

FileStep(t) ==
    \/ DeleteFile(t)
    \/ DfFind(t)
    \/ DfRemote(t)
    \/ DfSaved(t)

SyncStep(t) ==
    \/ SyncFromTelegram(t)
    \/ SyScan(t)
    \/ SyMerge(t)
    \/ SySaved(t)

\* no attempt fails here, so the retry path is not part of the relation
Next ==
    \/ \E t \in Tasks : CacheStep(t) \/ TransferStep(t) \/ FolderStep(t) \/ FileStep(t) \/ SyncStep(t)
    \/ Restart

Spec == Init /\ [][Next]_vars

(*************************** the store's claims *****************************)
\* no operation is under way
Quiet == \A t \in Tasks : tk[t].pc \in {"idle", "done"}

\* the indices of the FolderMetadata records of a path
RecordsOf(store, path) ==
    {i \in 1..Len(store.folder_metadata) : store.folder_metadata[i].path = path}

\* C5: the uploads that resolve a folder known by the legacy folders list
\* alone make one channel for it between them, whatever their interleaving,
\* and the store has one FolderMetadata record for the path.
C5_OneChannelForLegacyFolder ==
    /\ Cardinality({t \in Tasks : tk[t].op = "upload_file" /\ hist[t].created > 0}) <= 1
    /\ IsSome(cache) => Cardinality(RecordsOf(cache[1], PathA)) <= 1

\* a task between the memory swap of its save_metadata_local and its return
PastSwap(t) == tk[t].pc \in {"save_open", "save_write", "save_rename"}

\* C6: save_metadata_local calls do not overlap: while one is between its
\* memory swap and its return, no other is inside save_metadata_local; and
\* once every call has returned (some operation having replaced the store),
\* the cache and the metadata file hold the same store.
C6_SavesSerialize ==
    /\ \A t, u \in Tasks : (t # u /\ PastSwap(t)) => ~InSave(u)
    /\ (Quiet /\ proc.replaced /\ IsSome(cache)) => CanonContent = Some(Serialize(cache[1]))

\* the store shows what task t's operation did: the uploaded file's entry,
\* the created folder's path
HasEffect(store, t) ==
    IF tk[t].op = "upload_file"
    THEN \E i \in 1..Len(store.files) :
           /\ ~store.files[i].is_folder
           /\ store.files[i].message_id = Some(tk[t].message_id)
           /\ store.files[i].chat_id = tk[t].chat_id
    ELSE SeqContains(store.folders, FullPath(tk[t].folder, tk[t].name))

\* C7: when two operations on distinct entries (two uploads, or an upload and
\* a create_folder) have both returned success, the store holds the effect
\* of both.
C7_BothEffectsKept ==
    \A t, u \in Tasks :
      (/\ t # u
       /\ Done(t) /\ Result(t).ok /\ tk[t].op = "upload_file"
       /\ Done(u) /\ Result(u).ok /\ tk[u].op \in {"upload_file", "create_folder"})
        => HasEffect(cache[1], t) /\ HasEffect(cache[1], u)

\* C8: once the cache holds a store, no ensure_metadata_loaded call puts what
\* it read from disk in its place.
C8_CacheLoadedOnce ==
    [][\A t \in Tasks :
         (/\ IsSome(cache)
          /\ tk[t].pc = "ensure_swap" /\ tk'[t].pc # "ensure_swap"
          /\ proc'.restarts = proc.restarts)
           => cache' = cache]_vars

\* C9: when the process has ended inside save_metadata_local, the canonical
\* file the next process finds, if there is one, holds a complete store.
C9_CrashLeavesCompleteStore ==
    (/\ proc.restarts > 0 /\ proc.in_save
     /\ \A t \in Tasks : At(t, "idle"))
      => (fsys.canon # 0 => Parses(fsys.inodes[fsys.canon]))

\* C10: when the process ended with the store S saved (S in the cache and in
\* the file), the copy that load_metadata_copy returns in the next process,
\* before any operation has replaced the store, is S.
C10_SaveThenFreshLoad ==
    \A t \in Tasks :
      (proc.restarts > 0 /\ IsSome(proc.persisted) /\ ~proc.replaced /\ tk[t].copied)
        => tk[t].metadata = proc.persisted[1]

(*************************** loading a stored document **********************)
MaxEntries == 3      \* entries of a stored document

\* entries as older versions wrote them: ids that are empty, shared, or not
\* derived from the message
StoredEntries ==
    {FileEntry("folder_1", <<"A">>, Size(0, 0), Root, TRUE, None, None),
     FileEntry("", <<"B">>, Size(0, 0), Root, TRUE, None, None),
     FileEntry("", <<"f">>, Size(0, 1), Root, FALSE, None, None),
     FileEntry("x", <<"g">>, Size(0, 1), Root, FALSE, None, None),
     FileEntry("folder_1", <<"h">>, Size(0, 1), Root, FALSE, None, None),
     FileEntry("1", <<"r">>, Size(0, 1), Root, FALSE, Some(1), None),
     FileEntry("1", <<"s">>, Size(0, 1), PathA, FALSE, Some(1), Some(1))}

StoredFiles == UNION {[1..n -> StoredEntries] : n \in 0..MaxEntries}

StoredDoc(files) ==
    [kind |-> "doc", version |-> None, files |-> files,
     folders |-> <<Root, PathA>>, folder_metadata |-> None]

\* one delete_file call, which loads the document first
LoadEnv ==
    [tasks |-> {1}, ops |-> {"delete_file"}, sources |-> {}, folders |-> {},
     names |-> {}, parents |-> {}, file_ids |-> {"saved:1", "x"}, after |-> {},
     client |-> TRUE, errs |-> {}, hang |-> FALSE, down |-> FALSE, disk |-> FALSE, serial |-> FALSE, fails |-> AnyFails]

InitLoad ==
    /\ InitProcess
    /\ \E files \in StoredFiles : fsys = FilesWith(StoredDoc(files))
    /\ remote = LegacyAccount
    /\ env = LoadEnv

NextLoad == \E t \in Tasks : CacheStep(t) \/ FileStep(t)

SpecLoad == InitLoad /\ [][NextLoad]_vars

UniqueIds(files) ==
    \A i, j \in 1..Len(files) : files[i].id = files[j].id => i = j

DerivedIds(files) ==
    \A i \in 1..Len(files) :
      (~files[i].is_folder /\ IsSome(files[i].chat_id) /\ IsSome(files[i].message_id))
        => files[i].id = RemoteId(files[i].chat_id, files[i].message_id[1])

\* C11: the store that ensure_metadata_loaded has normalized has no id twice,
\* and each of its non-folder entries with a chat id and a message id has the
\* id "chat:message".
C11_NormalizedIdsUniqueAndDerived ==
    \A t \in Tasks :
      At(t, "ensure_swap") => UniqueIds(tk[t].loaded.files) /\ DerivedIds(tk[t].loaded.files)

(*************************** folders ****************************************)
PathAB == <<"/", "A", "B">>
PathA_B == <<"/", "A", "/", "B">>

\* the id a version-1 document gave a file (its message id), or the derived one
StoredId(legacy, chat_id, message_id) ==
    IF legacy THEN ToString(message_id) ELSE RemoteId(chat_id, message_id)

\* the folders /A, /A/B and /AB, each with one file, and one file in the root
TreeFiles(legacy) ==
    LET chat(n) == IF legacy THEN None ELSE Some(n)
        msg(n) == IF legacy THEN n ELSE 1
    IN <<FileEntry(FolderId(0), <<"A">>, Size(0, 0), Root, TRUE, None, chat(1)),
         FileEntry(FolderId(1), <<"B">>, Size(0, 0), PathA, TRUE, None, chat(2)),
         FileEntry(FolderId(2), <<"A", "B">>, Size(0, 0), Root, TRUE, None, chat(3)),
         FileEntry(StoredId(legacy, chat(1), msg(1)), <<"f">>, Size(0, 1), PathA, FALSE,
                   Some(msg(1)), chat(1)),
         FileEntry(StoredId(legacy, chat(2), msg(2)), <<"g">>, Size(0, 1), PathA_B, FALSE,
                   Some(msg(2)), chat(2)),
         FileEntry(StoredId(legacy, chat(3), msg(3)), <<"h">>, Size(0, 1), PathAB, FALSE,
                   Some(msg(3)), chat(3)),
         FileEntry(StoredId(legacy, None, 4), <<"r">>, Size(0, 1), Root, FALSE, Some(4), None)>>

\* as create_folder and upload_file leave it: every folder has its channel
TreeDoc ==
    Serialize([version |-> 2, files |-> TreeFiles(FALSE),
               folders |-> <<Root, PathA, PathA_B, PathAB>>,
               folder_metadata |-> <<FolderMetadata(PathA, Some(1)),
                                     FolderMetadata(PathA_B, Some(2)),
                                     FolderMetadata(PathAB, Some(3))>>])

\* as schema version 1 left it: the folders are in the folders list alone, the
\* files are messages of Saved Messages
LegacyTreeDoc ==
    [kind |-> "doc", version |-> None, files |-> TreeFiles(TRUE),
     folders |-> <<Root, PathA, PathA_B, PathAB>>, folder_metadata |-> None]

SavedMessage(id, name) == [chat |-> None, id |-> id, name |-> name, size |-> Size(0, 1)]

TreeAccount ==
    [titles |-> <<PathA, PathA_B, PathAB>>, alive |-> {1, 2, 3}, next_msg |-> <<2, 2, 2>>,
     saved_next |-> 5,
     msgs |-> {[chat |-> Some(1), id |-> 1, name |-> <<"f">>, size |-> Size(0, 1)],
               [chat |-> Some(2), id |-> 1, name |-> <<"g">>, size |-> Size(0, 1)],
               [chat |-> Some(3), id |-> 1, name |-> <<"h">>, size |-> Size(0, 1)],
               SavedMessage(4, <<"r">>)}]

LegacyTreeAccount ==
    [NoChannels EXCEPT
       !.saved_next = 5,
       !.msgs = {SavedMessage(1, <<"f">>), SavedMessage(2, <<"g">>), SavedMessage(3, <<"h">>),
                 SavedMessage(4, <<"r">>)}]

\* one create_folder, delete_folder or delete_file call, the channel free to
\* fail
FolderEnv ==
    [tasks |-> {1}, ops |-> {"create_folder", "delete_folder", "delete_file"}, sources |-> {},
     folders |-> {Root, PathA, PathA_B, PathAB},
     names |-> {<<>>, <<" ">>, <<"A">>, <<" ", "C">>, <<"C", "/", "D">>, <<"/">>, <<"f">>},
     parents |-> {Root, PathA, <<"/", "A", "/">>},
     file_ids |-> {"1:1", "saved:4", "x"}, after |-> {},
     client |-> TRUE, errs |-> {}, hang |-> FALSE, down |-> TRUE, disk |-> FALSE, serial |-> FALSE, fails |-> AnyFails]

InitFolders ==
    /\ InitProcess
    /\ \/ fsys = FilesWith(TreeDoc) /\ remote = TreeAccount
       \/ fsys = FilesWith(LegacyTreeDoc) /\ remote = LegacyTreeAccount
    /\ \E client \in BOOLEAN : env = [FolderEnv EXCEPT !.client = client]

TreeStep(t) ==
    \/ DeleteFolder(t)
    \/ DlFind(t)
    \/ DlRemote(t)
    \/ DlSaved(t)

NextFolders == \E t \in Tasks : CacheStep(t) \/ FolderStep(t) \/ TreeStep(t) \/ FileStep(t)

SpecFolders == InitFolders /\ [][NextFolders]_vars

\* the cases in which create_folder is to refuse the name: it is empty, it
\* has a path separator, the resulting path is a known folder, or an entry of
\* the parent has the name
Refusable(t) ==
    LET s == tk[t]
        full_path == TrimEndSlashes(s.folder) \o <<"/">> \o Trim(s.folder_name)
    IN \/ Trim(s.folder_name) = <<>>
       \/ \E i \in 1..Len(s.folder_name) : s.folder_name[i] \in {"/", "\\"}
       \/ /\ s.copied
          /\ \/ \E i \in 1..Len(s.metadata.folders) : s.metadata.folders[i] = full_path
             \/ \E i \in 1..Len(s.metadata.files) :
                  EntryFullPath(s.metadata.files[i]) = full_path

\* C15: create_folder fails, creates no container and leaves the store as it
\* found it whenever the name is empty, the name has a path separator, the
\* resulting path is a known folder, or the parent has an entry of that name.
C15_CreateFolderRefuses ==
    \A t \in Tasks :
      (Done(t) /\ tk[t].op = "create_folder" /\ Refusable(t))
        => /\ ~Result(t).ok
           /\ hist[t].created = 0
           /\ tk[t].copied => cache = Some(tk[t].metadata)

\* path is the folder `of` or nested under it
InOrUnder(path, of) ==
    \/ path = of
    \/ Len(path) > Len(of) /\ SubSeq(path, 1, Len(of)) = of /\ path[Len(of) + 1] = "/"

\* C12: delete_folder("/A") on a store with files in /A and in /A/B leaves, of
\* the entries it found, exactly those that are neither in /A or under it nor
\* the virtual entry of /A: the files of /A and /A/B and the virtual entries
\* of /A and /A/B are gone, the entries of /AB and of the root are as before.
C12_DeleteFolderRemovesSubtree ==
    \A t \in Tasks :
      (/\ Done(t) /\ tk[t].op = "delete_folder" /\ tk[t].folder = PathA /\ Result(t).ok
       /\ \E i \in 1..Len(tk[t].metadata.files) : tk[t].metadata.files[i].folder = PathA
       /\ \E i \in 1..Len(tk[t].metadata.files) : tk[t].metadata.files[i].folder = PathA_B)
        => cache[1].files =
             SelectSeq(tk[t].metadata.files,
                       LAMBDA f : ~(InOrUnder(f.folder, PathA)
                                    \/ (f.is_folder /\ InOrUnder(EntryFullPath(f), PathA))))

(*************************** one upload after another ***********************)
\* upload_file calls, each made once the one before it has returned, with
\* or without a session; the calls to the account may fail, a transfer attempt
\* may time out
SeqEnv ==
    [tasks |-> Tasks, ops |-> {"upload_file"},
     sources |-> {src \in Sources : src.exists /\ src.size # Size(100, 0)},
     folders |-> {Root, PathA, PathA_B}, names |-> {}, parents |-> {}, file_ids |-> {},
     after |-> {}, client |-> TRUE, errs |-> {E_Timeout}, hang |-> FALSE, down |-> TRUE, disk |-> FALSE, serial |-> TRUE, fails |-> AnyFails]

InitSeq ==
    /\ InitProcess
    /\ \/ InitWorld
       \/ fsys = FilesWith(LegacyTreeDoc) /\ remote = LegacyTreeAccount
    /\ \E client \in BOOLEAN : env = [SeqEnv EXCEPT !.client = client]

NextSeq == \E t \in Tasks : CacheStep(t) \/ TransferStep(t) \/ RetryStep(t)

SpecSeq == InitSeq /\ [][NextSeq]_vars

\* the virtual entries of `folder` carry the container id
BackFilled(files, folder, chat_id) ==
    \A i \in 1..Len(files) :
      (files[i].is_folder /\ EntryFullPath(files[i]) = folder) => files[i].chat_id = chat_id

\* the upload of task t has upgraded a legacy folder
Upgraded(t) == tk[t].op = "upload_file" /\ hist[t].created > 0

\* C13: an upload into a legacy folder that reaches its first transfer attempt
\* has by then created exactly one container, and the store in the cache and
\* the document on disk hold the folder's record with that container and the
\* folder's virtual entry with the container id; an upload into the same
\* folder that is called after the upgrading upload has returned creates no
\* container and, once it has resolved its target, uses the recorded one.
C13_LegacyFolderUpgradedOnce ==
    /\ \A t \in Tasks :
         (Upgraded(t) /\ At(t, "up_attempt") /\ Attempts(t) = <<>>)
           => /\ hist[t].created = 1
              /\ IsSome(cache)
              /\ Cardinality(RecordsOf(cache[1], tk[t].folder)) = 1
              /\ \A i \in RecordsOf(cache[1], tk[t].folder) :
                   cache[1].folder_metadata[i] = FolderMetadata(tk[t].folder, tk[t].chat_id)
              /\ BackFilled(cache[1].files, tk[t].folder, tk[t].chat_id)
              /\ CanonContent = Some(Serialize(cache[1]))
    /\ \A u, t \in Tasks :
         (/\ u < t /\ Upgraded(u) /\ Done(u)
          /\ tk[t].op = "upload_file" /\ tk[t].folder = tk[u].folder)
           => /\ hist[t].created = 0
              /\ tk[t].pc \in {"up_peer", "up_attempt", "up_sleep", "up_push"}
                   => tk[t].chat_id = tk[u].chat_id

\* the second upload attempts its transfer into the container the first created
C13_Witness ==
    /\ Upgraded(1) /\ Done(1) /\ tk[1].folder = PathA_B
    /\ tk[2].op = "upload_file" /\ tk[2].folder = PathA_B /\ At(2, "up_attempt")
    /\ BackFilled(cache[1].files, PathA_B, Some(1)) /\ cache[1].files[2].chat_id = Some(1)

\* the store the upload of task t resolved its target in has neither a record
\* for the folder nor the folder in its folders list
UnknownFolder(t) ==
    /\ tk[t].op = "upload_file" /\ tk[t].folder # Root /\ tk[t].copied
    /\ RecordsOf(tk[t].metadata, tk[t].folder) = {}
    /\ \A i \in 1..Len(tk[t].metadata.folders) : tk[t].metadata.folders[i] # tk[t].folder

\* C14: an upload into a folder other than the root that has no record and is
\* not in the folders list ends with FolderNotFound and conversely; it creates
\* no container (it never reaches the creation of one), makes no transfer
\* attempt, and when it returns the cached store and the document on disk are
\* the store it found.
C14_UnknownFolderIsRefused ==
    \A t \in Tasks :
      /\ At(t, "up_create") => ~UnknownFolder(t)
      /\ (Done(t) /\ UnknownFolder(t)) => Result(t) = Err("FolderNotFound")
      /\ (Done(t) /\ tk[t].op = "upload_file" /\ Result(t) = Err("FolderNotFound"))
           => /\ UnknownFolder(t)
              /\ hist[t].created = 0
              /\ Attempts(t) = <<>>
              /\ (\A u \in Tasks \ {t} : u > t => At(u, "idle"))
                   => /\ cache = Some(tk[t].metadata)
                      /\ CanonContent \in {None, Some(Serialize(tk[t].metadata))}

\* after the first upload has upgraded /A, the second is refused for /A/B
C14_Witness ==
    /\ Upgraded(1) /\ Done(1) /\ tk[1].folder = PathA
    /\ Done(2) /\ tk[2].folder = PathA_B /\ Result(2) = Err("FolderNotFound")
    /\ Len(remote.titles) = 1

\* the upload of task t has a source above the limit, or an empty one
TooLarge(s) == s.op = "upload_file" /\ SizeLt(MAX_FILE_SIZE, s.source.size)
Empty(s) == s.op = "upload_file" /\ s.source.size = Size(0, 0)

\* C16: an upload of a source larger than MAX_FILE_SIZE ends with
\* PayloadTooLarge and one of a zero-byte source with EmptySource, with or
\* without a session; the refusal is the first step of the call, before the
\* session handle is taken and before any remote call, and it leaves the
\* cache, the files and the account as they were.
C16_SizeLimitsBeforeSession ==
    /\ [](\A t \in Tasks :
            /\ TooLarge(tk[t]) => Done(t) /\ Result(t) = Err("PayloadTooLarge")
            /\ Empty(tk[t]) => Done(t) /\ Result(t) = Err("EmptySource")
            /\ (TooLarge(tk[t]) \/ Empty(tk[t]))
                 => ~tk[t].copied /\ hist[t] = NoHist)
    /\ [][\A t \in Tasks :
            (tk'[t] # tk[t] /\ (TooLarge(tk'[t]) \/ Empty(tk'[t])))
              => At(t, "idle") /\ UNCHANGED <<cache, fsys, remote>>]_vars

\* without a session, the first upload was refused as empty and the second as
\* too large
C16_Witness ==
    /\ ~env.client
    /\ Done(1) /\ Empty(tk[1]) /\ Result(1) = Err("EmptySource")
    /\ Done(2) /\ TooLarge(tk[2]) /\ Result(2) = Err("PayloadTooLarge")

(*************************** a migration ************************************)
MaxCandidates == 3   \* file entries of the store that is migrated

\* a file of 1 byte that upload_file left in Saved Messages when folders had
\* no channels
LegacyFile(name, folder, message_id) ==
    FileEntry(RemoteId(None, message_id), name, Size(0, 1), folder, FALSE, Some(message_id), None)

\* files in /A (which has a channel), in /AB (whose record has no chat id), in
\* /A/B (which has no record) and in the root; message 5 is not in the
\* account, message 6 is an empty document, and one file of /A is in the
\* channel already
MigrationEntries ==
    {LegacyFile(<<"f">>, PathA, 1), LegacyFile(<<"g">>, PathAB, 2),
     LegacyFile(<<"h">>, PathA_B, 3), LegacyFile(<<"r">>, Root, 4),
     LegacyFile(<<"m">>, PathA, 5), LegacyFile(<<"z">>, PathA, 6),
     FileEntry(RemoteId(Some(1), 1), <<"c">>, Size(0, 1), PathA, FALSE, Some(1), Some(1))}

MigrationStore(files) ==
    [version |-> 2, files |-> files, folders |-> <<Root, PathA, PathA_B, PathAB>>,
     folder_metadata |-> <<FolderMetadata(PathA, Some(1)), FolderMetadata(PathAB, None)>>]

MigrationAccount ==
    [titles |-> <<PathA>>, alive |-> {1}, next_msg |-> <<2>>, saved_next |-> 7,
     msgs |-> {SavedMessage(1, <<"f">>), SavedMessage(2, <<"g">>), SavedMessage(3, <<"h">>),
               SavedMessage(4, <<"r">>),
               [chat |-> None, id |-> 6, name |-> <<"z">>, size |-> Size(0, 0)],
               [chat |-> Some(1), id |-> 1, name |-> <<"c">>, size |-> Size(0, 1)]}]

\* one migrate_files_to_folders call; the account's calls and the temporary
\* directory may fail
MigrateEnv ==
    [tasks |-> {1}, ops |-> {"migrate_files_to_folders"}, sources |-> {}, folders |-> {},
     names |-> {}, parents |-> {}, file_ids |-> {}, after |-> {},
     client |-> TRUE, errs |-> {}, hang |-> FALSE, down |-> TRUE, disk |-> TRUE, serial |-> FALSE, fails |-> AnyFails]

InitMigrate ==
    /\ InitProcess
    /\ \E n \in 0..MaxCandidates : \E files \in [1..n -> MigrationEntries] :
         fsys = FilesWith(Serialize(MigrationStore(files)))
    /\ remote = MigrationAccount
    /\ env = MigrateEnv

MigrateStep(t) ==
    \/ MigrateFiles(t)
    \/ MgCollect(t)
    \/ MgNext(t)
    \/ DnFind(t)
    \/ DnOpen(t)
    \/ DnStream(t)
    \/ MgUploaded(t)
    \/ MgDeleted(t)

\* the steps of upload_file and delete_file that the orchestrator's calls take
CalleeStep(t) ==
    \/ UpTarget(t)
    \/ UpResolve(t)
    \/ UpPeer(t)
    \/ UpAttempt(t)
    \/ UpPush(t)
    \/ UpSaved(t)
    \/ DfFind(t)
    \/ DfRemote(t)
    \/ DfSaved(t)

NextMigrate == \E t \in Tasks : CacheStep(t) \/ MigrateStep(t) \/ CalleeStep(t)

SpecMigrate == InitMigrate /\ [][NextMigrate]_vars

\* the entries of the store the migration loaded that are candidates, and
\* those of them whose folder has no record with a chat id
Candidates(store) == {i \in 1..Len(store.files) : NeedsMigration(store.files[i])}
NotReady(store) ==
    {i \in Candidates(store) :
       \A j \in 1..Len(store.folder_metadata) :
         store.folder_metadata[j].path = store.files[i].folder
           => store.folder_metadata[j].chat_id = None}

Reported(t) == Done(t) /\ tk[t].op = "migrate_files_to_folders" /\ Result(t).ok

\* C17: the report of a migration of N candidates, K of them in folders
\* without a ready container, has total = N, skipped = K and
\* migrated + failed = N - K, and the loop has passed every candidate once.
C17_ReportCountsEveryCandidate ==
    \A t \in Tasks :
      Reported(t)
        => LET m == tk[t].mig
               N == Cardinality(Candidates(m.metadata))
               K == Cardinality(NotReady(m.metadata))
           IN /\ m.total = N
              /\ m.skipped = K
              /\ m.migrated + m.failed = N - K
              /\ m.index = N + 1

\* a report of three candidates: one migrated, one failed, one skipped
C17_Witness ==
    /\ Reported(1)
    /\ tk[1].mig.total = 3 /\ tk[1].mig.migrated = 1 /\ tk[1].mig.failed = 1
    /\ tk[1].mig.skipped = 1

\* C18: a migration that has collected its candidates returns a report in
\* which every candidate is counted, whatever step failed for a candidate.
C18_BatchNeverAborts ==
    \A t \in Tasks :
      (Done(t) /\ tk[t].op = "migrate_files_to_folders" /\ tk[t].mig.index > 0)
        => /\ Result(t).ok
           /\ tk[t].mig.index = tk[t].mig.total + 1
           /\ tk[t].mig.migrated + tk[t].mig.failed + tk[t].mig.skipped = tk[t].mig.total

\* C19: once the orchestrator is at the next candidate, or has returned, no
\* candidate before the one at hand has a file in the temporary directory.
C19_NoTempFileLeft ==
    \A t \in Tasks :
      (tk[t].op = "migrate_files_to_folders" /\ tk[t].pc \in {"mg_next", "done"})
        => \A j \in 1..Len(tk[t].mig.files) :
             j < tk[t].mig.index => TempFiles(tk[t].mig.files[j].id) = {}

(*************************** a transfer *************************************)
MaxTime == 6000                  \* milliseconds a transfer is followed for
Delays == {0, 1000, 5000}        \* milliseconds between two polls
ReadLens == {1, 50}              \* bytes one poll transfers
TransferSizes == {0, 3, 100, 200}   \* bytes of a stream

\* a stream of a source's size is wrapped: by attempt_upload in a
\* ProgressReader, by download_file in a ProgressWriter
NewTransfer(t) ==
    /\ \E op \in {"poll_read", "poll_write"} :
         /\ CanStart(t, op)
         /\ \E source \in env.sources :
              Set(t, [Begin(t, op) EXCEPT
                        !.pc = "transfer", !.source = source,
                        !.progress = NewProgress(source.size.rem, 0)])
    /\ hist' = [hist EXCEPT ![t] = NoHist]
    /\ UNCHANGED <<cache, fsys, remote, clock, env, proc>>

\* the bytes of the stream a wrapper with total_size 0 is given
UnsizedLen == 3

\* the bytes the wrapped stream still holds
Left(p) == (IF p.total_size = 0 THEN UnsizedLen ELSE p.total_size) - p.current_size

\* one poll of the stream, some time after the last one: it transfers bytes,
\* or none when the stream stalls (the time of such a poll is not looked at),
\* or fails when the stream can fail (res => res: the error is returned as it
\* is), which ends the transfer; a poll at the end of the stream ends it too
Poll(t, op) ==
    /\ At(t, "transfer") /\ tk[t].op = op
    /\ LET p == tk[t].progress IN
       IF Left(p) = 0 THEN Set(t, Finish(tk[t], Ok("transferred")))
       ELSE \/ \E n \in {len \in ReadLens : len <= Left(p)},
                  delay \in {d \in Delays : p.now + d <= MaxTime} :
                 Set(t, [tk[t] EXCEPT !.progress = Polled(p, n, p.now + delay)])
            \/ /\ env.hang
               /\ Set(t, [tk[t] EXCEPT !.progress = Polled(p, 0, p.now)])
            \/ /\ env.errs # {}
               /\ Set(t, Finish([tk[t] EXCEPT !.rv = "err"], Err("IoError")))
    /\ UNCHANGED <<cache, fsys, remote, clock, env, proc, hist>>

PollRead(t) == Poll(t, "poll_read")
PollWrite(t) == Poll(t, "poll_write")

ProgressEnv ==
    [tasks |-> {1}, ops |-> {"poll_read", "poll_write"},
     sources |-> {[path_ok |-> TRUE, exists |-> TRUE, name |-> <<"f">>, size |-> Size(0, total)] :
                    total \in TransferSizes},
     folders |-> {}, names |-> {}, parents |-> {}, file_ids |-> {}, after |-> {},
     client |-> TRUE, errs |-> {}, hang |-> FALSE, down |-> FALSE, disk |-> FALSE, serial |-> FALSE, fails |-> AnyFails]

InitProgress == InitProcess /\ fsys = NoFiles /\ remote = NoChannels /\ env = ProgressEnv

NextProgress == \E t \in Tasks : NewTransfer(t) \/ PollRead(t) \/ PollWrite(t)

SpecProgress == InitProgress /\ [][NextProgress]_vars

\* C20: a transfer of 100 bytes that has gone through the wrapper in 100
\* polls of 1 byte, in less than 1 second, has called on_progress exactly
\* twice: with 0 and then with 100.
C20_TwoCallbacksForFastTransfer ==
    \A t \in Tasks :
      (/\ Done(t) /\ tk[t].op \in {"poll_read", "poll_write"}
       /\ tk[t].progress.total_size = 100 /\ tk[t].progress.polls = 100
       /\ tk[t].progress.now < 1000)
        => /\ tk[t].progress.calls = 2
           /\ tk[t].progress.calls_0 = 1
           /\ tk[t].progress.calls_100 = 1

\* C21: within one transfer every percentage on_progress is called with is
\* 0, 100, or higher than the percentage of the call before it (before the
\* first call: higher than 0), so that no percentage strictly between 0 and
\* 100 is delivered twice and none is lower than an earlier one.
C21_ProgressStrictlyIncreasing ==
    [][\A t \in Tasks :
         tk'[t].progress.calls > tk[t].progress.calls
           => \/ tk'[t].progress.last_reported_progress \in {0, 100}
              \/ tk'[t].progress.last_reported_progress
                   > tk[t].progress.last_reported_progress]_vars

(*************************** the throttle ***********************************)
PollSizes == {0, 3, 100}         \* bytes of a stream that may stall or fail

\* streams that stall and fail
PollEnv ==
    [ProgressEnv EXCEPT
       !.sources = {[path_ok |-> TRUE, exists |-> TRUE, name |-> <<"f">>, size |-> Size(0, total)] :
                      total \in PollSizes},
       !.errs = {E_Timeout}, !.hang = TRUE]

InitPoll == InitProcess /\ fsys = NoFiles /\ remote = NoChannels /\ env = PollEnv

SpecPoll == InitPoll /\ [][NextProgress]_vars

\* a poll of task t
PollStep(t) == tk[t].pc = "transfer" /\ tk'[t] # tk[t]

\* what the sentence gives as the condition of a call, p the wrapper before
\* the poll and q after it; before the first call the last emission is the
\* construction of the wrapper, with 0 percent
Stated(p, q) ==
    LET progress == Percent(q.current_size, q.total_size)
        elapsed_ms == q.now - p.last_reported_time
    IN \/ progress \in {0, 100}
       \/ /\ elapsed_ms >= 1000
          /\ \/ Abs(progress - p.last_reported_progress) >= 5
             \/ elapsed_ms >= 5000

\* C32: a poll that transfers at least one byte with a total that is not 0
\* calls on_progress once if the new percentage is 0 or 100, or 1 second has
\* passed since the last call and (the percentage is 5 points away from the
\* last one or 5 seconds have passed), and not at all otherwise; a poll with
\* a total of 0, one that transfers nothing and one that fails make no call,
\* and the wrapper returns the bytes or the error of the stream.
C32_ThrottledCallback ==
    [][\A t \in Tasks : PollStep(t) =>
         LET p == tk[t].progress
             q == tk'[t].progress
             failed == tk'[t].pc = "done" /\ ~tk'[t].result[1].ok
             ended == tk'[t].pc = "done" /\ tk'[t].result[1].ok
         IN IF failed
            THEN q = p /\ tk'[t].result[1].err = "IoError"
            ELSE IF ended THEN q = p /\ Left(p) = 0
            ELSE /\ q.current_size = p.current_size + q.read_len
                 /\ q.calls - p.calls
                      = IF q.read_len > 0 /\ q.total_size > 0 /\ Stated(p, q) THEN 1 ELSE 0
                 /\ q.calls > p.calls
                      => /\ q.last_reported_progress = Percent(q.current_size, q.total_size)
                         /\ q.last_reported_time = q.now]_vars

\* C32 witness: after a call that is for neither milestone, a poll has
\* transferred nothing
C32_Witness ==
    \E t \in Tasks :
      /\ tk[t].pc = "transfer"
      /\ tk[t].progress.calls > tk[t].progress.calls_0 + tk[t].progress.calls_100
      /\ tk[t].progress.read_len = 0 /\ tk[t].progress.current_size > 0

(*************************** the session handle *****************************)
\* telegram_check_auth: takes the lock of the session handle; without a
\* session it answers false, with one it calls is_authenticated, the guard
\* alive until the command returns
CheckAuth(t) ==
    /\ CanStart(t, "check_auth")
    /\ Unlocked
    /\ Set(t, IF env.client
              THEN [Begin(t, "check_auth") EXCEPT !.pc = "auth_call", !.client_guard = TRUE]
              ELSE Finish(Begin(t, "check_auth"), Ok("false")))
    /\ hist' = [hist EXCEPT ![t] = NoHist]
    /\ UNCHANGED <<cache, fsys, remote, clock, env, proc>>

\* is_authorized answers: the command returns and the guard is dropped
AuthReply(t) ==
    /\ At(t, "auth_call")
    /\ \E out \in RemoteOutcomes :
         Set(t, Finish([tk[t] EXCEPT !.client_guard = FALSE],
                       IF out = "ok" THEN Ok("true") ELSE Err("RemoteError")))
    /\ UNCHANGED <<cache, fsys, remote, clock, env, proc, hist>>

SessionStep(t) ==
    \/ CheckAuth(t)
    \/ AuthReply(t)

\* two tasks, each calling upload_file or telegram_check_auth
SessionEnv ==
    [tasks |-> Tasks, ops |-> {"upload_file", "check_auth"},
     sources |-> {[path_ok |-> TRUE, exists |-> TRUE, name |-> <<"f">>, size |-> Size(0, 1)]},
     folders |-> {Root, PathA}, names |-> {}, parents |-> {}, file_ids |-> {}, after |-> {},
     client |-> TRUE, errs |-> {}, hang |-> FALSE, down |-> TRUE, disk |-> FALSE,
     serial |-> FALSE, fails |-> AnyFails]

\* the document of the data directory is damaged: it does not parse
DamagedWorld == fsys = FilesWith(Torn) /\ remote = NoChannels

InitSession ==
    /\ InitProcess
    /\ InitWorld \/ DamagedWorld
    /\ \E client \in BOOLEAN : env = [SessionEnv EXCEPT !.client = client]

NextSession == \E t \in Tasks : CacheStep(t) \/ TransferStep(t) \/ SessionStep(t)

SpecSession == InitSession /\ [][NextSession]_vars

\* the program points at which a task waits for the answer of a remote call
RemoteCallPcs ==
    {"auth_call", "up_target", "up_create", "up_peer", "up_attempt", "up_probe",
     "up_refresh"}

\* C22: no task holds the guard of the session handle's lock while a remote
\* call of its own is outstanding, and whenever a task may call upload_file
\* the lock is free, so that the task does not wait for the remote call of
\* another one.
C22_NoLockAcrossRemoteCall ==
    /\ \A t \in Tasks : tk[t].client_guard => tk[t].pc \notin RemoteCallPcs
    /\ \A t \in Tasks : CanStart(t, "upload_file") => Unlocked
\* the task's transfer has succeeded: its last attempt sent the message
Transferred(t) ==
    /\ tk[t].op = "upload_file"
    /\ hist[t].log # <<>>
    /\ hist[t].log[Len(hist[t].log)] = Event("attempt", "ok", None, 0)

\* C23: an upload_file whose transfer has succeeded returns Ok with the id of
\* the message it sent, also when loading or saving the store afterwards has
\* failed.
C23_MetadataFailureKeepsSuccess ==
    \A t \in Tasks :
      (Done(t) /\ Transferred(t))
        => /\ tk[t].result = Some(Ok(ToString(tk[t].message_id)))
           /\ \E m \in remote.msgs : m.id = tk[t].message_id /\ m.chat = tk[t].chat_id

\* an upload has returned after its transfer succeeded and the store could
\* not be loaded
C23_Witness ==
    \E t \in Tasks : Done(t) /\ Transferred(t) /\ tk[t].rv = "err" /\ ~tk[t].copied
(*************************** folders and files together ********************)
PathAslash == <<"/", "A", "/">>

\* the store after create_folder("C", "/A/") and delete_folder("/A/C"): the
\* virtual entry, whose folder is the parent as it was passed, has stayed
StrayEntryStore ==
    [version |-> 2,
     files |-> <<FileEntry(FolderId(0), <<"C">>, Size(0, 0), PathAslash, TRUE, None, Some(1))>>,
     folders |-> <<Root>>,
     folder_metadata |-> <<>>]

StrayEntryAccount ==
    [titles |-> << <<"/", "A", "/", "C">> >>, alive |-> {}, next_msg |-> <<1>>,
     saved_next |-> 1, msgs |-> {}]

\* two tasks, each calling one of the four commands, the channel answering
\* or refusing
TreeEnv ==
    [tasks |-> Tasks, ops |-> {"upload_file", "create_folder", "delete_file", "delete_folder"},
     sources |-> {[path_ok |-> TRUE, exists |-> TRUE, name |-> <<"f">>, size |-> Size(0, 1)]},
     folders |-> {Root, PathA}, names |-> {<<"A">>, <<"C">>}, parents |-> {Root, PathAslash},
     file_ids |-> {"1:1"}, after |-> {},
     client |-> TRUE, errs |-> {}, hang |-> FALSE, down |-> TRUE, disk |-> FALSE,
     serial |-> FALSE, fails |-> AnyFails]

\* stores that the four commands make of the empty one
InitTree ==
    /\ InitProcess
    /\ \/ fsys = NoFiles /\ remote = NoChannels
       \/ fsys = FilesWith(Serialize(StoreWithFolderA)) /\ remote = ChannelA
       \/ fsys = FilesWith(Serialize(StrayEntryStore)) /\ remote = StrayEntryAccount
       \/ fsys = FilesWith(TreeDoc) /\ remote = TreeAccount
    /\ \E client \in BOOLEAN : env = [TreeEnv EXCEPT !.client = client]

\* no document of schema version 1 here: ids are never rewritten on load and
\* no folder is upgraded, so those steps are not part of the relation
NextTree ==
    \E t \in Tasks :
      \/ EnsureCheck(t) \/ EnsureRead(t) \/ EnsureSwap(t) \/ Copy(t)
      \/ SaveSwap(t) \/ SaveOpen(t) \/ SaveWrite(t) \/ SaveRename(t)
      \/ UploadFile(t) \/ UpTarget(t) \/ UpResolve(t) \/ UpPeer(t) \/ UpAttempt(t)
      \/ UpPush(t) \/ UpSaved(t)
      \/ RetryStep(t) \/ FolderStep(t) \/ FileStep(t) \/ TreeStep(t)

SpecTree == InitTree /\ [][NextTree]_vars

\* the steps left out of NextTree are never due
NoLegacyStep == \A t \in Tasks : tk[t].pc \notin {"ensure_saved", "up_create", "up_upgrade", "up_upgraded"}
\* C24: in the store every entry that is not a folder and has a container id
\* has a FolderMetadata record with that container id.
C24_EntryContainerHasRecord ==
    IsSome(cache) =>
      \A i \in 1..Len(cache[1].files) :
        LET f == cache[1].files[i] IN
        (~f.is_folder /\ IsSome(f.chat_id))
          => \E j \in 1..Len(cache[1].folder_metadata) :
               cache[1].folder_metadata[j].chat_id = f.chat_id
\* C25: in the store every FolderMetadata record of a path other than the
\* root has a virtual folder entry whose parent folder and name make up the
\* record's path.
C25_RecordHasVirtualEntry ==
    IsSome(cache) =>
      \A j \in 1..Len(cache[1].folder_metadata) :
        LET r == cache[1].folder_metadata[j] IN
        r.path # Root
          => \E i \in 1..Len(cache[1].files) :
               /\ cache[1].files[i].is_folder
               /\ FullPath(cache[1].files[i].folder, cache[1].files[i].name) = r.path

\* the virtual folder entries of a store, by position
VirtualEntries(store) == {i \in 1..Len(store.files) : store.files[i].is_folder}

\* C26: in the store no two virtual folder entries have the same parent
\* folder and the same name.
C26_VirtualEntriesUnique ==
    IsSome(cache) =>
      \A i, j \in VirtualEntries(cache[1]) :
        (/\ cache[1].files[i].folder = cache[1].files[j].folder
         /\ cache[1].files[i].name = cache[1].files[j].name) => i = j
\* a create_folder was refused because the parent it was given holds a
\* virtual folder entry of that name
C26_Witness ==
    \E t \in Tasks :
      /\ Done(t) /\ tk[t].op = "create_folder"
      /\ tk[t].result = Some(Err("NameCollision"))
      /\ IsSome(cache)
      /\ \E i \in VirtualEntries(cache[1]) :
           cache[1].files[i].folder = tk[t].folder /\ cache[1].files[i].name = tk[t].name
(*************************** a channel that may stay silent *****************)
\* one upload; any remote call may fail or get no answer, an attempt may fail
\* with a timeout of the channel
SilentEnv ==
    [tasks |-> {1}, ops |-> {"upload_file"},
     sources |-> {[path_ok |-> TRUE, exists |-> TRUE, name |-> <<"f">>, size |-> Size(0, 1)]},
     folders |-> {Root, PathA}, names |-> {}, parents |-> {}, file_ids |-> {}, after |-> {},
     client |-> TRUE, errs |-> {E_Timeout}, hang |-> TRUE, down |-> TRUE, disk |-> FALSE,
     serial |-> FALSE, fails |-> AnyFails]

InitSilent == InitProcess /\ InitWorld /\ env = SilentEnv

\* the runtime goes on polling a task that can take a step
SpecSilent ==
    /\ InitSilent
    /\ [][NextUpload]_vars
    /\ \A t \in Tasks : WF_vars(CacheStep(t) \/ TransferStep(t) \/ RetryStep(t))

\* C27: an upload_file that has been called returns in the end, whichever
\* remote call gets no answer.
C27_UploadEventuallyReturns ==
    \A t \in Tasks : (tk[t].op = "upload_file") ~> Done(t)
(*************************** a document that cannot be loaded ***************)
\* two tasks, each calling one command, the channel answering every call
DamagedEnv ==
    [tasks |-> Tasks, ops |-> {"upload_file", "create_folder", "delete_file",
                               "delete_folder", "sync_from_telegram"},
     sources |-> {[path_ok |-> TRUE, exists |-> TRUE, name |-> <<"f">>, size |-> Size(0, 1)]},
     folders |-> {Root, PathA}, names |-> {<<"A">>}, parents |-> {Root},
     file_ids |-> {"saved:1"}, after |-> {},
     client |-> TRUE, errs |-> {}, hang |-> FALSE, down |-> FALSE, disk |-> FALSE,
     serial |-> FALSE, fails |-> AnyFails]

\* the document does not parse; Saved Messages holds one file
InitDamaged ==
    /\ InitProcess
    /\ fsys = FilesWith(Torn)
    /\ remote = LegacyAccount
    /\ env = DamagedEnv

\* no folder has a record or is in the folders list before a create_folder
\* has returned, so no folder is upgraded, resolved or removed here
NextDamaged ==
    \E t \in Tasks :
      \/ EnsureCheck(t) \/ EnsureRead(t) \/ EnsureSwap(t) \/ Copy(t)
      \/ SaveSwap(t) \/ SaveOpen(t) \/ SaveWrite(t) \/ SaveRename(t)
      \/ UploadFile(t) \/ UpTarget(t) \/ UpResolve(t) \/ UpAttempt(t) \/ UpPush(t) \/ UpSaved(t)
      \/ DeleteFolder(t) \/ DlFind(t)
      \/ FolderStep(t) \/ FileStep(t) \/ SyncStep(t)

SpecDamaged == InitDamaged /\ [][NextDamaged]_vars
\* the steps left out of NextDamaged are never due
NoFolderStep ==
    \A t \in Tasks :
      tk[t].pc \notin {"ensure_saved", "up_create", "up_upgrade", "up_upgraded", "up_peer",
                       "dl_remote", "dl_saved", "up_sleep"}

\* the commands that load the store before they do anything else with it
StoreCommands == {"create_folder", "delete_file", "delete_folder", "sync_from_telegram"}

\* C28: while the document cannot be loaded, the file at the canonical path
\* stays as it is, and every command that has loaded the store returns an
\* error.
C28_UnloadableStoreIsLeftAlone ==
    /\ fsys.canon = 1 /\ fsys.inodes[1] = Torn
    /\ \A t \in Tasks : (Done(t) /\ tk[t].op \in StoreCommands) => ~Result(t).ok
\* the entry of the copy the task loaded that has the id the task was given
KnownEntries(t) ==
    {i \in 1..Len(tk[t].metadata.files) : tk[t].metadata.files[i].id = tk[t].file_id}

\* the folder the task was given has a record in the copy the task loaded
HasRecord(t) ==
    \E j \in 1..Len(tk[t].metadata.folder_metadata) :
      tk[t].metadata.folder_metadata[j].path = tk[t].folder

\* C29: a delete_file of a known id and a delete_folder of a folder that has
\* a record return true, and the store holds the entry, respectively the
\* record and the folder's entries, no more: whether or not there is a
\* session handle and whatever the channel answered.
C29_LocalDeleteDespiteRemoteFailure ==
    \A t \in Tasks :
      /\ (Done(t) /\ tk[t].op = "delete_file" /\ tk[t].copied /\ KnownEntries(t) # {})
           => /\ tk[t].result = Some(Ok("true"))
              /\ IsSome(cache)
              /\ Len(cache[1].files) = Len(tk[t].metadata.files) - 1
              /\ Position(cache[1].files, tk[t].file_id) = 0
      /\ (Done(t) /\ tk[t].op = "delete_folder" /\ tk[t].copied /\ HasRecord(t))
           => /\ tk[t].result = Some(Ok("true"))
              /\ IsSome(cache)
              /\ \A j \in 1..Len(cache[1].folder_metadata) :
                   cache[1].folder_metadata[j].path # tk[t].folder
              /\ \A i \in 1..Len(cache[1].files) :
                   /\ cache[1].files[i].folder # tk[t].folder
                   /\ ~StartsWith(cache[1].files[i].folder, FolderPrefix(tk[t].folder))

\* a delete_file has returned true and the message of the entry it removed
\* is still in its chat
C29_Witness ==
    \E t \in Tasks :
      /\ Done(t) /\ tk[t].op = "delete_file" /\ tk[t].result = Some(Ok("true"))
      /\ \E i \in KnownEntries(t) :
           \E m \in remote.msgs :
             /\ m.chat = tk[t].metadata.files[i].chat_id
             /\ Some(m.id) = tk[t].metadata.files[i].message_id
(*************************** the backoff ************************************)
\* the failed attempts among the first i events of the task's log
FailedUpTo(t, i) ==
    Cardinality({j \in 1..i : hist[t].log[j].ev = "attempt" /\ Failed(hist[t].log[j])})

\* the wait after the k-th failed attempt, by the error's markers in any case
\* of letters: the flood wait first, then "too many requests", then the
\* doubling backoff
BackoffTable(e, k) ==
    IF "flood_wait" \in e.words
    THEN IF IsSome(e.digits) THEN Min(e.digits[1], 60) ELSE 30
    ELSE IF "too many requests" \in e.words THEN 30
    ELSE Min(2 ^ (k - 1), 30)

\* C30: every sleep of an upload follows the k-th failed attempt for a k of
\* 1..4 and lasts what the table gives for that attempt's error and k, and
\* never more than 60 seconds.
C30_BackoffFollowsTable ==
    \A t \in Tasks :
      \A i \in 1..Len(hist[t].log) :
        hist[t].log[i].ev = "sleep"
          => /\ i > 1 /\ hist[t].log[i - 1].ev = "attempt" /\ Failed(hist[t].log[i - 1])
             /\ FailedUpTo(t, i) \in 1..(MAX_RETRIES - 1)
             /\ hist[t].log[i].secs
                  = BackoffTable(hist[t].log[i - 1].err[1], FailedUpTo(t, i))
             /\ hist[t].log[i].secs <= 60

\* an upload has slept 12 seconds after an attempt, not the first, whose
\* error carried flood_wait_12 and "too many requests"
C30_Witness ==
    \E t \in Tasks :
      \E i \in 2..Len(hist[t].log) :
        /\ hist[t].log[i].ev = "sleep"
        /\ hist[t].log[i - 1].err = Some(E_FloodTooMany)
        /\ FailedUpTo(t, i) > 1
        /\ hist[t].log[i].secs = 12
(*************************** the attempt's timeout **************************)
MaxMib == 360
MiB == 1024 * 1024

\* sizes from 1 byte on: every count of whole MiB up to MaxMib and the last
\* one below the limit, with no, one, or all but one byte of the next MiB
TimeoutSizes ==
    {Size(m, r) : m \in (0..MaxMib) \cup {2 * 1024 - 1}, r \in {0, 1, MiB - 1}} \ {Size(0, 0)}

\* one upload into the root; an attempt may succeed, fail with the stream's
\* timeout, or not answer in time
TimeoutEnv ==
    [tasks |-> {1}, ops |-> {"upload_file"},
     sources |-> {[path_ok |-> TRUE, exists |-> TRUE, name |-> <<"f">>, size |-> z] :
                    z \in TimeoutSizes},
     folders |-> {Root}, names |-> {}, parents |-> {}, file_ids |-> {}, after |-> {},
     client |-> TRUE, errs |-> {}, hang |-> TRUE, down |-> FALSE, disk |-> FALSE,
     serial |-> FALSE, fails |-> AnyFails]

InitTimeout == InitProcess /\ fsys = NoFiles /\ remote = NoChannels /\ env = TimeoutEnv

\* the root needs no folder record, and there is no file to normalize
NextTimeout ==
    \E t \in Tasks :
      \/ EnsureCheck(t) \/ EnsureRead(t) \/ EnsureSwap(t) \/ Copy(t)
      \/ SaveSwap(t) \/ SaveOpen(t) \/ SaveWrite(t) \/ SaveRename(t)
      \/ UploadFile(t) \/ UpTarget(t) \/ UpAttempt(t) \/ UpPush(t) \/ UpSaved(t)
      \/ UpSleep(t) \/ UpProbe(t) \/ UpRefresh(t)

SpecTimeout == InitTimeout /\ [][NextTimeout]_vars

\* the size in bytes
Bytes(size) == size.mib * MiB + size.rem

\* 180 + 60 * floor(size / 20 MiB), clamped to [180, 1200]
TimeoutTable(size) == Min(1200, Max(180, 180 + 60 * (Bytes(size) \div (20 * MiB))))

\* C31: an attempt that is given up for its timeout has waited the seconds
\* of the table for the size of its source, and of two sizes the larger one
\* has the timeout that is not the shorter.
C31_AttemptTimeoutFollowsTable ==
    /\ \A t \in Tasks :
         \A i \in 1..Len(hist[t].log) :
           (hist[t].log[i].ev = "attempt" /\ hist[t].log[i].out = "elapsed")
             => hist[t].log[i].secs = TimeoutTable(tk[t].source.size)
    /\ \A t \in Tasks :
         \A z \in TimeoutSizes :
           SizeLt(tk[t].source.size, z)
             => AttemptTimeoutSecs(tk[t].source.size) <= AttemptTimeoutSecs(z)

\* an attempt was given up after a timeout between the two ends of the range
C31_Witness ==
    \E t \in Tasks :
      \E i \in 1..Len(hist[t].log) :
        /\ hist[t].log[i].ev = "attempt" /\ hist[t].log[i].out = "elapsed"
        /\ hist[t].log[i].secs > 180 /\ hist[t].log[i].secs < 1200

(*************************** the refreshed peer *****************************)
MaxFails == 1        \* attempts that fail while the two uploads run

\* two uploads into a folder of the legacy list, the channel failing a call
\* now and then and MaxFails attempts
RefreshEnv ==
    [tasks |-> Tasks, ops |-> {"upload_file"},
     sources |-> {[path_ok |-> TRUE, exists |-> TRUE, name |-> <<"f">>, size |-> Size(0, 1)]},
     folders |-> {PathA}, names |-> {}, parents |-> {}, file_ids |-> {}, after |-> {},
     client |-> TRUE, errs |-> {E_Timeout}, hang |-> FALSE, down |-> TRUE, disk |-> FALSE,
     serial |-> FALSE, fails |-> MaxFails]

InitRefresh ==
    /\ InitProcess
    /\ fsys = FilesWith(LegacyDocFolderA) /\ remote = LegacyAccount
    /\ env = RefreshEnv

SpecRefresh == InitRefresh /\ [][NextUpload]_vars

\* C33: an attempt that follows a failed probe and a peer fetched again is
\* made with that peer: the chat the attempt goes to is the chat the folder's
\* record named when the peer was fetched again.
C33_AttemptUsesRefreshedPeer ==
    \A t \in Tasks :
      (At(t, "up_attempt") /\ IsSome(tk[t].new_chat))
        => tk[t].chat_id = tk[t].new_chat[1]

(*************************** the order of a migration ***********************)
\* the entry of the id is in the store
InIndex(store, file_id) == IsSome(store) /\ Position(store[1].files, file_id) # 0

\* C34: in a migration delete_file is entered for a candidate only when its
\* download has left the temporary file and its upload_file has returned Ok;
\* an entry of a candidate leaves the store, and a message the account, only
\* inside that delete_file; and when a candidate is counted as failed or as
\* skipped it has not been through delete_file and its entry is in the store.
C34_DeleteOnlyAfterReupload ==
    [][\A t \in Tasks :
         tk[t].op = "migrate_files_to_folders" =>
           LET s == tk[t]
               s2 == tk'[t]
           IN /\ (s2.caller = "mg_deleted" /\ s.caller # "mg_deleted")
                   => /\ At(t, "mg_uploaded") /\ s.result[1].ok
                      /\ TempFiles(Candidate(s).id) # {}
                      /\ s2.file_id = Candidate(s).id
              /\ \A j \in 1..Len(s.mig.files) :
                   (InIndex(cache, s.mig.files[j].id) /\ ~InIndex(cache', s.mig.files[j].id))
                     => s.caller = "mg_deleted" /\ s.file_id = s.mig.files[j].id
              /\ (\E m \in remote.msgs : m \notin remote'.msgs)
                   => s.caller = "mg_deleted" /\ s.file_id = Candidate(s).id
              /\ (s2.mig.failed > s.mig.failed \/ s2.mig.skipped > s.mig.skipped)
                   => /\ s.caller # "mg_deleted"
                      /\ InIndex(cache', Candidate(s).id)]_vars

\* C34 witness: the migration has returned; the entry of a candidate it
\* migrated has left the store and that of one it failed to upload is there
C34_Witness ==
    \E t \in Tasks :
      /\ Reported(t) /\ tk[t].mig.migrated > 0 /\ tk[t].mig.failed > 0
      /\ \E i, j \in 1..Len(tk[t].mig.files) :
           /\ ~InIndex(cache, tk[t].mig.files[i].id)
           /\ InIndex(cache, tk[t].mig.files[j].id)
           /\ TempFiles(tk[t].mig.files[j].id) = {}

(*************************** the id an upload returns ***********************)
\* C35: when an upload has returned Ok after its entry was saved, the store
\* has an entry whose id is the returned value, and it is the entry of the
\* uploaded message: download_file and delete_file, which look the id up
\* with f.id == file_id, find it.
C35_ReturnedIdFindsEntry ==
    \A t \in Tasks :
      (Done(t) /\ Transferred(t) /\ tk[t].rv = "ok" /\ tk[t].copied)
        => /\ InIndex(cache, Result(t).val)
           /\ cache[1].files[Position(cache[1].files, Result(t).val)].message_id
                = Some(tk[t].message_id)

(*************************** what a migration leaves ************************)
\* the chat id of the first record of the folder that has one
ContainerOf(store, folder) ==
    LET fm == store.folder_metadata
        recs == {i \in 1..Len(fm) : fm[i].path = folder /\ IsSome(fm[i].chat_id)}
    IN fm[CHOOSE i \in recs : \A j \in recs : i <= j].chat_id

\* C36: at the step that counts a candidate as migrated, the store has an
\* entry in the candidate's folder with its name and size and with the chat
\* id of the folder's record, and no entry with the candidate's id.
C36_MigratedFileKeepsNameAndSize ==
    [][\A t \in Tasks :
         tk'[t].mig.migrated > tk[t].mig.migrated
           => LET file == Candidate(tk[t])
                  files == cache'[1].files
              IN /\ \E i \in 1..Len(files) :
                      /\ ~files[i].is_folder
                      /\ files[i].folder = file.folder
                      /\ files[i].name = file.name
                      /\ files[i].size = file.size
                      /\ files[i].chat_id = ContainerOf(tk[t].mig.metadata, file.folder)
                 /\ ~InIndex(cache', file.id)]_vars

(*************************** normalizing again *****************************)
\* C37: normalize_file_ids applied, at a later time, to the store that a load
\* has just normalized changes no id and reports no change.
C37_NormalizeIsIdempotent ==
    \A t \in Tasks :
      At(t, "ensure_swap")
        => LET again == normalize_file_ids(tk[t].loaded, clock)
           IN again.store = tk[t].loaded /\ ~again.changed

(*************************** what delete_folder leaves **********************)
\* C38: the store that a delete_folder which returned true has saved has no
\* path in its folders list and no FolderMetadata record that is the deleted
\* path or lies under it.
C38_NoPathUnderDeletedFolder ==
    \A t \in Tasks :
      (Done(t) /\ tk[t].op = "delete_folder" /\ Result(t) = Ok("true"))
        => LET store == tk[t].save_store IN
           /\ \A i \in 1..Len(store.folders) : ~InOrUnder(store.folders[i], tk[t].folder)
           /\ \A j \in 1..Len(store.folder_metadata) :
                ~InOrUnder(store.folder_metadata[j].path, tk[t].folder)

(*************************** a save that fails ******************************)
\* C39: when save_metadata_local returns an error, the cache holds the store
\* it held when the call was made.
C39_FailedSaveLeavesCache ==
    [][\A t \in Tasks :
         (/\ tk[t].pc \in {"save_open", "save_write", "save_rename"}
          /\ tk'[t].pc \notin {"save_open", "save_write", "save_rename"}
          /\ tk'[t].rv = "err")
           => cache' = tk[t].cache_before[1]]_vars

(*************************** a refresh that fails ***************************)
\* C40: an upload does not return from its probe or from the refresh that
\* follows a failed probe: no step taken there ends the upload.
C40_ProbeAndRefreshNeverEndUpload ==
    [][\A t \in Tasks :
         (tk[t].op = "upload_file" /\ tk[t].pc \in {"up_probe", "up_refresh", "up_refreshed"})
           => tk'[t].pc # "done"]_vars

=============================================================================
